---- MODULE Spec2Model ----
(***************************************************************************)
(* Model of lighttpd's mod_dirlisting (src/src/mod_dirlisting.c): the       *)
(* batched, resumable directory scan, the buffered and the streaming        *)
(* renderer, the on-disk response cache and the per-request controller      *)
(* with its process-wide admission counter.                                 *)
(*                                                                          *)
(* A handler of the module (subrequest_start, subrequest, reset) is one     *)
(* action.  The C functions are operators over a record S:                  *)
(*   S.p   p->processing                                                    *)
(*   S.q   the request: the fields of request_st the module reads or        *)
(*         writes, the fields of its handler_ctx, and observation counters  *)
(*         (q.ev) that count what the code did during this request          *)
(*   S.fs  the cache directory tree: temp files and the two final names     *)
(* The response body is a sequence of tokens; one token is one fragment     *)
(* the renderer appends (page header, one row, one JSON element, ...).      *)
(***************************************************************************)
EXTENDS Integers, Sequences, FiniteSets, TLC

\* ---------------------------------------------------------------- bounds
NReq == 2          \* requests that can be in flight at once
MaxTime == 2       \* a file's age in seconds is counted up to MaxTime
MaxFaults == 1     \* system calls that fail within one handler invocation

\* ------------------------------------------------------ program constants
DIRLIST_BATCH == 32
DIRLIST_BLOB_SIZE == 16

Reqs == 1..NReq
TmpIds == 1..NReq

\* the servers explored.  max_conns is srv->srvconf.max_conns, max_age is
\* dir-listing.cache max-age (0: no cache), sort is dir-listing.sort, bufmin
\* is FDEVENT_STREAM_RESPONSE_BUFMIN in server.stream-response-body, external
\* says that external-css or external-js is set; n is the number of entries
\* the directory stream delivers ('.' and '..' included), long says that the
\* names are long.  max_conns 8 gives a ceiling of 1, max_conns 32 one of 2.
\* faults are the failures the host shows besides those of opendir() and of
\* the cache write: none in these servers.  The directory holds '.', '..',
\* directories, files, dot-files and entries whose stat() fails (mixed says
\* that it holds more: see MixedKind), and dot-files are hidden
\* (hide_dot_files, the default); no README or HEADER is hidden and there is
\* no exclude pattern.  order gives the names of the entries in stream
\* order, where they are not those of EntName.
Setup(mc, ma, sort, bufmin, ext, n, long) ==
    [max_conns |-> mc, max_age |-> ma, sort |-> sort, bufmin |-> bufmin,
     external |-> ext, n |-> n, long |-> long, faults |-> {},
     mixed |-> FALSE, order |-> <<>>, hide_dot_files |-> TRUE,
     hide_readme_file |-> FALSE, show_readme |-> FALSE,
     hide_header_file |-> FALSE, show_header |-> FALSE, excludes |-> FALSE]
Setups == {
    Setup(8,  0, TRUE,  FALSE, FALSE, 3,  FALSE),
    Setup(8,  1, TRUE,  FALSE, FALSE, 3,  FALSE),
    Setup(8,  1, TRUE,  FALSE, FALSE, 33, FALSE),
    Setup(8,  1, FALSE, FALSE, FALSE, 33, TRUE),
    Setup(8,  0, FALSE, TRUE,  FALSE, 65, TRUE),
    Setup(8,  0, TRUE,  FALSE, TRUE,  33, FALSE),
    Setup(8,  0, TRUE,  FALSE, FALSE, 64, FALSE),
    Setup(32, 0, TRUE,  FALSE, FALSE, 33, FALSE),
    Setup(32, 0, FALSE, FALSE, FALSE, 33, FALSE) }

VARIABLES
    processing,                \* p->processing
    dirlist_max_in_progress,   \* static int dirlist_max_in_progress
    conf,                      \* the resolved plugin_config of the scope
    dir,                       \* the directory listed: what readdir() delivers,
                               \* and the failures the host can show
    req,                       \* the requests in flight
    fs,                        \* the cache directory tree
    done,                      \* the request the last step completed, if any
    call                       \* a helper function called on its own: its
                               \* arguments, locals and result

vars == <<processing, dirlist_max_in_progress, conf, dir, req, fs, done, call>>

\* no helper function is called on its own
NoCall == [fn |-> "none"]

\* ------------------------------------------------------------ the tokens
\* a token is a number: an HTML row is the entry's name (1..999), a JSON
\* element is 1000 + name when it opens the array and 2000 + name when a
\* comma precedes it; the fixed fragments follow
TokRow(name) == name
TokObj(name, comma) == IF comma THEN 2000 + name ELSE 1000 + name
TokHeader == 3001     \* what http_list_directory_header appends
TokFooter == 3002     \* what http_list_directory_footer appends
TokOpen == 3003       \* '['
TokClose == 3004      \* ']'

\* rendered size in bytes of one token: a row or an element grows with the
\* (escaped) name, so a directory of long names has long rows
TokLen(t) ==
    IF t = TokHeader THEN 1500
    ELSE IF t = TokFooter THEN 6000
    ELSE IF t = TokOpen \/ t = TokClose THEN 1
    ELSE IF t > 2000 THEN (IF dir.long THEN 2101 ELSE 201)
    ELSE (IF dir.long THEN 2100 ELSE 200)

\* the bytes of a sequence of tokens: the sum of the two halves
RECURSIVE SeqBytes(_)
SeqBytes(s) ==
    IF s = <<>> THEN 0
    ELSE IF Len(s) = 1 THEN TokLen(s[1])
    ELSE SeqBytes(SubSeq(s, 1, Len(s) \div 2))
         + SeqBytes(SubSeq(s, Len(s) \div 2 + 1, Len(s)))

\* ---------------------------------------------------------- the directory
\* entry i of a snapshot: '.' and '..' first, then a mix of directories,
\* files, dot-files and entries whose stat() fails; names are distinct and
\* not in sorted order
EntName(i) == IF i <= 100 THEN (i * 37) % 101 ELSE i

EntKind(i) ==
    IF i = 1 THEN "dot"
    ELSE IF i = 2 THEN "dotdot"
    ELSE CASE i % 5 = 0 -> "dir"
           [] i % 5 = 1 -> "file"
           [] i % 5 = 2 -> "hidden"
           [] i % 5 = 3 -> "file"
           [] i % 5 = 4 -> "gone"

\* entry i of a directory that holds every kind of entry the scanner tells
\* apart: besides the above the file show_readme names ("readme"), the file
\* show_header names ("header"), names an exclude pattern matches
\* ("excluded") and names longer than name_max ("toolong")
MixedKind(i) ==
    IF i = 1 THEN "dot"
    ELSE IF i = 2 THEN "dotdot"
    ELSE IF i = 4 THEN "header"
    ELSE IF i = 35 THEN "readme"
    ELSE CASE i % 7 = 0 -> "dir"
           [] i % 7 = 1 -> "file"
           [] i % 7 = 2 -> "hidden"
           [] i % 7 = 3 -> "excluded"
           [] i % 7 = 4 -> "gone"
           [] i % 7 = 5 -> "toolong"
           [] i % 7 = 6 -> "file"

\* what the i-th readdir() of a scan returns
DirEnt(i) == [name |-> IF i <= Len(dir.order) THEN dir.order[i]
                       ELSE EntName(i),
              kind |-> IF dir.mixed THEN MixedKind(i) ELSE EntKind(i)]


\* ------------------------------------------------------------ the records
\* observation counters of one request: what the code did since its start
Ev0 == [inc |-> 0, dec |-> 0, opendir |-> 0, closedir |-> 0, mk |-> 0,
        unl |-> 0, ren |-> 0, cl |-> 0, wr |-> 0, waits |-> 0,
        reads |-> 0, fin |-> 0, free |-> 0, sorts |-> 0, h103 |-> 0,
        rderr |-> 0, spillerr |-> 0]

\* handler_ctx after ck_calloc(): every field zero (jfd is 0, not -1)
Hctx0 == [dp |-> FALSE, pos |-> 0, dirs |-> <<>>, files |-> <<>>,
          jb |-> FALSE, hb |-> FALSE, buf |-> <<>>, jcomma |-> 0,
          jfd |-> 0, jfn |-> 0, json |-> FALSE]

\* a request_st no handler has touched
Req0 == [handler_module |-> FALSE, plugin_ctx |-> FALSE, h |-> Hctx0,
         http_status |-> 0, hdrs |-> {},
         resp_body_started |-> FALSE, resp_body_finished |-> FALSE,
         resp_send_chunked |-> FALSE, hdr_sent |-> FALSE,
         write_queue |-> <<>>, sent |-> <<>>, is_writable |-> TRUE,
         rc |-> "none", sched |-> FALSE, json |-> FALSE, h2 |-> FALSE,
         path |-> "none", stale |-> FALSE,
         alloc |-> {}, dirOpen |-> 0, ev |-> Ev0]

\* Time is kept relative: a file's age is log_epoch_secs - st_mtime.
\* a final cache name: data and age of the file it names, and (observation)
\* whether the file's descriptor was closed when it was renamed there, and
\* the temp name it was renamed from
NoFile == [ex |-> FALSE, data |-> <<>>, age |-> 0, closed |-> TRUE, src |-> 0]
\* a temp file: its name exists (ex), a descriptor is open on it (open), and
\* its name is dirlist.json.XXXXXX (json) or dirlist.html.XXXXXX
NoTmp == [ex |-> FALSE, open |-> FALSE, data |-> <<>>, age |-> 0,
          json |-> FALSE]
Fs0 == [tmp |-> [t \in TmpIds |-> NoTmp], html |-> NoFile, json |-> NoFile]

Count(q, f) == [q EXCEPT !.ev[f] = @ + 1]

\* the system calls of one handler invocation that can fail; a handler
\* invocation runs with a set f of those that do fail
FaultKinds == {"open", "mkdir", "mkostemp", "write", "writecq", "rename",
               "attach", "send1xx", "readdir", "spill"}
Faults(K) == {f \in SUBSET (K \cap FaultKinds) : Cardinality(f) <= MaxFaults}
\* the calls the cache makes (none without a cache)
CacheFaults == IF conf.cache
               THEN {"mkdir", "mkostemp", "write", "writecq", "rename"}
               ELSE {}

\* ------------------------------------------------------- file primitives
\* close(fd): the descriptor is released; an unlinked file disappears with it
SysClose(S, fd) ==
    IF fd \in TmpIds /\ S.fs.tmp[fd].open
    THEN [S EXCEPT !.fs.tmp[fd] = IF @.ex THEN [@ EXCEPT !.open = FALSE]
                                  ELSE NoTmp,
                   !.q = Count(@, "cl")]
    ELSE [S EXCEPT !.q = Count(@, "cl")]

\* unlink(name): the name is removed; data stays while a descriptor is open
SysUnlink(S, fn) ==
    IF fn \in TmpIds /\ S.fs.tmp[fn].ex
    THEN [S EXCEPT !.fs.tmp[fn] = IF @.open THEN [@ EXCEPT !.ex = FALSE]
                                  ELSE NoTmp,
                   !.q = Count(@, "unl")]
    ELSE [S EXCEPT !.q = Count(@, "unl")]

\* fdevent_mkostemp(): a new, empty file under a name no file has
FreeTmp(S) == {t \in TmpIds : ~S.fs.tmp[t].ex /\ ~S.fs.tmp[t].open}
SysMkostemp(S, id, json) ==
    [S EXCEPT !.fs.tmp[id] = [ex |-> TRUE, open |-> TRUE, data |-> <<>>,
                              age |-> 0, json |-> json],
              !.q = Count(@, "mk")]

\* write(fd, data): all of data, or on failure a proper prefix of it
SysWrite(S, fd, data, fail) ==
    [S EXCEPT !.fs.tmp[fd].data =
                  @ \o (IF fail THEN SubSeq(data, 1, Len(data) - 1) ELSE data),
              !.fs.tmp[fd].age = 0,
              !.q = Count(@, "wr")]

\* fdevent_rename(old, new): new now names the file old named
SysRename(S, fn, json) ==
    LET f == [ex |-> TRUE, data |-> S.fs.tmp[fn].data,
              age |-> S.fs.tmp[fn].age,
              closed |-> ~S.fs.tmp[fn].open, src |-> fn]
        S1 == IF json THEN [S EXCEPT !.fs.json = f] ELSE [S EXCEPT !.fs.html = f]
    IN [S1 EXCEPT !.fs.tmp[fn] = IF @.open THEN [@ EXCEPT !.ex = FALSE]
                                 ELSE NoTmp,
                  !.q = Count(@, "ren")]


\* ------------------------------------------------------------- the sort
\* http_dirls_sort: comb sort, shrink 10/13, gaps 9 and 10 become 11
\* the steps i .. end - 1 of the inner loop
RECURSIVE http_dirls_sort_steps(_, _, _, _, _)
http_dirls_sort_steps(ent, gap, i, end, swapped) ==
    IF ~(i < end) THEN [ent |-> ent, swapped |-> swapped, i |-> i]
    ELSE LET j == i + gap IN
         IF ent[i + 1] > ent[j + 1]
         THEN http_dirls_sort_steps(
                  [ent EXCEPT ![i + 1] = ent[j + 1], ![j + 1] = ent[i + 1]],
                  gap, i + 1, end, TRUE)
         ELSE http_dirls_sort_steps(ent, gap, i + 1, end, swapped)

\* Variant of http_dirls_sort_loop whose loop ends when the gap is 1,
\* swapped or not.  With it C22_Sorted fails.
RECURSIVE http_dirls_sort_loop_once(_, _)
http_dirls_sort_loop_once(ent, gap0) ==
    IF (IF (gap0 * 10) \div 13 < 1 THEN 1 ELSE (gap0 * 10) \div 13) > 1
    THEN http_dirls_sort_loop_once(
             http_dirls_sort_steps(ent, (gap0 * 10) \div 13, 0,
                                   Len(ent) - (gap0 * 10) \div 13, FALSE).ent,
             (gap0 * 10) \div 13)
    ELSE http_dirls_sort_steps(ent, 1, 0, Len(ent) - 1, FALSE).ent

\* the inner loop, for (i = 0; i < used - gap; i++), sixteen steps at a time
RECURSIVE http_dirls_sort_from(_, _)
http_dirls_sort_from(r, gap) ==
    IF ~(r.i < Len(r.ent) - gap) THEN r
    ELSE http_dirls_sort_from(
             http_dirls_sort_steps(r.ent, gap, r.i,
                 IF r.i + 16 < Len(r.ent) - gap THEN r.i + 16
                 ELSE Len(r.ent) - gap,
                 r.swapped), gap)

http_dirls_sort_pass(ent, gap, i, swapped) ==
    http_dirls_sort_from([ent |-> ent, swapped |-> swapped, i |-> i], gap)

http_dirls_sort_gap(gap) ==
    LET g1 == (gap * 10) \div 13
        g2 == IF g1 = 9 \/ g1 = 10 THEN 11 ELSE g1
    IN IF g2 < 1 THEN 1 ELSE g2

RECURSIVE http_dirls_sort_loop(_, _)
http_dirls_sort_loop(ent, gap0) ==
    LET gap == http_dirls_sort_gap(gap0)
        r == http_dirls_sort_pass(ent, gap, 0, FALSE)
    IN IF gap > 1 \/ r.swapped THEN http_dirls_sort_loop(r.ent, gap) ELSE r.ent

http_dirls_sort(ent) == http_dirls_sort_loop(ent, Len(ent))

\* Variant of http_list_directory_jsonname that takes the comma from what the
\* buffer holds instead of hctx->jcomma.  With it C30_JsonArray fails.
http_list_directory_jsonname_perbuf(h, dent) ==
    IF h.buf # <<>>
    THEN [h EXCEPT !.buf = Append(@, TokObj(dent.name, TRUE))]
    ELSE [h EXCEPT !.jcomma = 1, !.buf = Append(@, TokObj(dent.name, FALSE))]


\* --------------------------------------------------------- the scanner
\* http_list_directory_jsonname: ",{...}" or, for the first element, "{...}"
http_list_directory_jsonname(h, dent) ==
    IF h.jcomma # 0
    THEN [h EXCEPT !.buf = Append(@, TokObj(dent.name, TRUE))]
    ELSE [h EXCEPT !.jcomma = 1, !.buf = Append(@, TokObj(dent.name, FALSE))]

\* Variant of the body of the loop that skips the file show_readme names
\* whether or not hide_readme_file is set.  With it C21_Listed fails.
http_read_directory_entry_lazy(h, dent) ==
    IF dent.kind \in {"dot", "dotdot"} THEN h
    ELSE IF dent.kind = "hidden" /\ conf.hide_dot_files THEN h
    ELSE IF dent.kind = "readme" /\ conf.show_readme THEN h
    ELSE IF dent.kind = "header" /\ conf.hide_header_file /\ conf.show_header
    THEN h
    ELSE IF dent.kind = "excluded" /\ conf.excludes THEN h
    ELSE IF dent.kind = "toolong" THEN h
    ELSE IF dent.kind = "gone" THEN h
    ELSE IF h.jb THEN http_list_directory_jsonname(h, dent)
    ELSE IF h.hb THEN [h EXCEPT !.buf = Append(@, TokRow(dent.name))]
    ELSE IF dent.kind = "dir" THEN [h EXCEPT !.dirs = Append(@, dent.name)]
    ELSE [h EXCEPT !.files = Append(@, dent.name)]

\* the body of the loop of http_read_directory for one directory entry
http_read_directory_entry(h, dent) ==
    IF dent.kind \in {"dot", "dotdot"} THEN h             \* '.' and '..'
    ELSE IF dent.kind = "hidden" /\ conf.hide_dot_files THEN h
    ELSE IF dent.kind = "readme" /\ conf.hide_readme_file /\ conf.show_readme
    THEN h
    ELSE IF dent.kind = "header" /\ conf.hide_header_file /\ conf.show_header
    THEN h
    ELSE IF dent.kind = "excluded" /\ conf.excludes THEN h
    ELSE IF dent.kind = "toolong" THEN h                 \* dsz > name_max
    ELSE IF dent.kind = "gone" THEN h                    \* fstatat() fails
    ELSE IF h.jb THEN http_list_directory_jsonname(h, dent)
    ELSE IF h.hb THEN [h EXCEPT !.buf = Append(@, TokRow(dent.name))]
    ELSE IF dent.kind = "dir" THEN [h EXCEPT !.dirs = Append(@, dent.name)]
    ELSE [h EXCEPT !.files = Append(@, dent.name)]

\* Variant of the loop of http_read_directory that calls readdir() before it
\* tests the count: the entry read when the batch is full is dropped.  With
\* it C11_SameBody fails.
RECURSIVE http_read_directory_loop_skip(_, _, _)
http_read_directory_loop_skip(h, count, err) ==
    LET c == count + 1 IN
    IF err \/ ~(h.pos < dir.n) THEN [h |-> h, count |-> c]
    ELSE IF ~(c < DIRLIST_BATCH)
    THEN [h |-> [h EXCEPT !.pos = @ + 1], count |-> c]
    ELSE http_read_directory_loop_skip(
             http_read_directory_entry([h EXCEPT !.pos = @ + 1],
                                       DirEnt(h.pos + 1)), c, FALSE)

\* while (++count < DIRLIST_BATCH && (dent = readdir(p->dp)) != NULL)
\* readdir() returns NULL at the end of the stream and when it fails; err
\* says that the next call fails
RECURSIVE http_read_directory_loop(_, _, _)
http_read_directory_loop(h, count, err) ==
    LET c == count + 1 IN
    IF ~(c < DIRLIST_BATCH) THEN [h |-> h, count |-> c]
    ELSE IF err \/ ~(h.pos < dir.n) THEN [h |-> h, count |-> c]
    ELSE http_read_directory_loop(
             http_read_directory_entry([h EXCEPT !.pos = @ + 1],
                                       DirEnt(h.pos + 1)), c, FALSE)

\* Variant of http_read_directory_end that never yields: the directory is
\* closed after the first batch.  With it C10_Yields fails.
http_read_directory_end_first_batch(S, l) ==
    [S |-> [S EXCEPT !.q = [Count(Count([@ EXCEPT !.h = l.h], "closedir"), "fin")
                              EXCEPT !.h.dp = FALSE, !.dirOpen = @ - 1]],
     rc |-> "FINISHED"]

\* Variant of http_read_directory_end that looks ahead: a full batch that
\* took the last entry of the stream closes the directory at once.  With it
\* C24_Batch fails.
http_read_directory_end_peek(S, l) ==
    IF l.count = DIRLIST_BATCH /\ l.h.pos < dir.n
    THEN [S |-> [S EXCEPT !.q = Count([@ EXCEPT !.h = l.h], "waits")],
          rc |-> "WAIT"]
    ELSE [S |-> [S EXCEPT !.q = [Count(Count([@ EXCEPT !.h = l.h], "closedir"),
                                       "fin")
                                    EXCEPT !.h.dp = FALSE, !.dirOpen = @ - 1]],
          rc |-> "FINISHED"]

\* Variant of http_read_directory_end that yields one entry early.  With it
\* C34_SmallDirs fails.
http_read_directory_end_early(S, l) ==
    IF l.count >= DIRLIST_BATCH - 1
    THEN [S |-> [S EXCEPT !.q = Count([@ EXCEPT !.h = l.h], "waits")],
          rc |-> "WAIT"]
    ELSE [S |-> [S EXCEPT !.q = [Count(Count([@ EXCEPT !.h = l.h], "closedir"),
                                       "fin")
                                    EXCEPT !.h.dp = FALSE, !.dirOpen = @ - 1]],
          rc |-> "FINISHED"]

\* Variant of http_read_directory_end that leaves p->dp set after closedir.
\* With it C25_ClosedOnce fails.
http_read_directory_end_dangling(S, l) ==
    IF l.count = DIRLIST_BATCH
    THEN [S |-> [S EXCEPT !.q = Count([@ EXCEPT !.h = l.h], "waits")],
          rc |-> "WAIT"]
    ELSE [S |-> [S EXCEPT !.q = [Count(Count([@ EXCEPT !.h = l.h], "closedir"),
                                       "fin")
                                    EXCEPT !.dirOpen = @ - 1]],
          rc |-> "FINISHED"]

\* http_read_directory after its loop: the batch was full (yield), or the
\* directory is exhausted (closedir, p->dp = NULL)
http_read_directory_end(S, l) ==
    IF l.count = DIRLIST_BATCH
    THEN [S |-> [S EXCEPT !.q = Count([@ EXCEPT !.h = l.h], "waits")],
          rc |-> "WAIT"]
    ELSE [S |-> [S EXCEPT !.q = [Count(Count([@ EXCEPT !.h = l.h], "closedir"),
                                       "fin")
                                    EXCEPT !.h.dp = FALSE, !.dirOpen = @ - 1]],
          rc |-> "FINISHED"]

\* the ck_realloc_u32 of the two stores, as the entries of a batch are added
http_read_directory_stores(S, h) ==
    [S EXCEPT !.q.ev.reads = @ + (h.pos - S.q.h.pos),
              !.q.alloc = @ \cup (IF h.dirs # <<>> THEN {"dirs"} ELSE {})
                            \cup (IF h.files # <<>> THEN {"files"} ELSE {})]

http_read_directory_batch(S, l) ==
    http_read_directory_end(http_read_directory_stores(S, l.h), l)

\* http_read_directory: one batch; "WAIT" is HANDLER_WAIT_FOR_EVENT.  With
\* the fault "readdir" the first readdir() of the call fails.
http_read_directory(S, f) ==
    IF "readdir" \in f /\ S.q.h.pos < dir.n
    THEN http_read_directory_batch([S EXCEPT !.q = Count(@, "rderr")],
                                   http_read_directory_loop(S.q.h, 0 - 1, TRUE))
    ELSE http_read_directory_batch(S, http_read_directory_loop(S.q.h, 0 - 1, FALSE))

\* http_open_directory: opendir(); -1 when it fails
http_open_directory(S, fail) ==
    IF fail THEN [S |-> [S EXCEPT !.q.alloc = @ \cup {"path"}], rc |-> 0 - 1]
    ELSE [S |-> [S EXCEPT !.q = [Count(@, "opendir")
                                    EXCEPT !.h.dp = TRUE, !.h.pos = 0,
                                           !.h.dirs = <<>>, !.h.files = <<>>,
                                           !.dirOpen = @ + 1,
                                           !.alloc = @ \cup {"path"}]],
          rc |-> 0]


\* ------------------------------------------------------ response headers
SetContentType(q, v) ==
    [q EXCEPT !.hdrs = (@ \ {"Content-Type: text/html",
                             "Content-Type: application/json"}) \cup {v}]

\* mod_dirlisting_content_type
mod_dirlisting_content_type(q) == SetContentType(q, "Content-Type: text/html")

\* mod_dirlisting_cache_control: only if no Cache-Control is set yet
mod_dirlisting_cache_control(q) == [q EXCEPT !.hdrs = @ \cup {"Cache-Control"}]

\* mod_dirlisting_cache_etag
mod_dirlisting_cache_etag(q) ==
    IF conf.etag THEN [q EXCEPT !.hdrs = @ \cup {"ETag"}] ELSE q

\* http_dirlist_auto_layout_early_hints: Link preload headers
http_dirlist_auto_layout_early_hints(q) ==
    IF conf.external THEN [q EXCEPT !.hdrs = @ \cup {"Link"}] ELSE q

\* ------------------------------------------------------------- teardown
\* Variant of mod_dirlisting_handler_ctx_free that leaves the directory
\* stream and the temp file alone.  With it C7_Teardown fails.
mod_dirlisting_handler_ctx_free_leaky(S) ==
    [S EXCEPT !.q = [Count(@, "free") EXCEPT !.alloc = {}, !.h = Hctx0]]

\* mod_dirlisting_handler_ctx_free
mod_dirlisting_handler_ctx_free(S) ==
    LET h == S.q.h
        S1 == IF h.dp
              THEN [S EXCEPT !.q = [Count(@, "closedir") EXCEPT !.dirOpen = @ - 1]]
              ELSE S
        S2 == [S1 EXCEPT !.q.alloc = @ \ {"files", "dirs"}]
        S3 == IF h.jb \/ h.hb
              THEN LET A == [S2 EXCEPT !.q.alloc = @ \ {"buf"}]
                       B == IF h.jfd # 0 - 1 THEN SysClose(A, h.jfd) ELSE A
                       C == IF h.jfn # 0
                            THEN [SysUnlink(B, h.jfn) EXCEPT !.q.alloc = @ \ {"jfn"}]
                            ELSE B
                   IN C
              ELSE S2
    IN [S3 EXCEPT !.q = [Count(@, "free") EXCEPT !.alloc = @ \ {"path", "hctx"},
                                                  !.h = Hctx0]]

\* Variant of mod_dirlisting_reset without the test of *dptr.  With it
\* C8_Idempotent fails.
mod_dirlisting_reset_unguarded(S) ==
    [mod_dirlisting_handler_ctx_free([S EXCEPT !.p = @ - 1, !.q = Count(@, "dec")])
       EXCEPT !.q.plugin_ctx = FALSE]

\* mod_dirlisting_reset
mod_dirlisting_reset(S) ==
    IF S.q.plugin_ctx
    THEN LET S1 == [S EXCEPT !.p = @ - 1, !.q = Count(@, "dec")]
             S2 == mod_dirlisting_handler_ctx_free(S1)
         IN [S2 EXCEPT !.q.plugin_ctx = FALSE]
    ELSE S

\* ------------------------------------------------------ cache, streaming
\* the cleanup both streaming write paths run when the tee is given up
\* Variant of CacheStreamAbort that keeps the name of the temp file.  With it
\* C35_AbortFinal fails.
CacheStreamAbort_named(S) ==
    LET A == SysClose(S, S.q.h.jfd)
    IN SysUnlink([A EXCEPT !.q.h.jfd = 0 - 1], S.q.h.jfn)

CacheStreamAbort(S) ==
    LET A == SysClose(S, S.q.h.jfd)
        B == SysUnlink([A EXCEPT !.q.h.jfd = 0 - 1], S.q.h.jfn)
    IN [B EXCEPT !.q.h.jfn = 0, !.q.alloc = @ \ {"jfn"}]

\* mod_dirlisting_write_cq: every chunk of cq into fd; cq keeps its content
\* and order; 1 when all was written, 0 when a write failed
mod_dirlisting_write_cq(S, fd, fail) ==
    IF S.q.write_queue = <<>> THEN [S |-> S, rc |-> 1]
    ELSE [S |-> SysWrite(S, fd, S.q.write_queue, fail),
          rc |-> IF fail THEN 0 ELSE 1]

\* Variant of mod_dirlisting_stream_append that gives up the buffered data
\* together with the cache file when the write fails.  With it C6_Unaffected
\* fails.
mod_dirlisting_stream_append_lossy(S, fin, f) ==
    IF ~fin /\ SeqBytes(S.q.h.buf) < 16384 - 1024 THEN S
    ELSE IF S.q.h.jfn # 0 /\ ("write" \in f) /\ S.q.h.buf # <<>>
    THEN [CacheStreamAbort(SysWrite(S, S.q.h.jfd, S.q.h.buf, TRUE))
            EXCEPT !.q.h.buf = <<>>]
    ELSE [(IF S.q.h.jfn # 0 THEN SysWrite(S, S.q.h.jfd, S.q.h.buf, FALSE) ELSE S)
            EXCEPT !.q.write_queue = @ \o S.q.h.buf, !.q.h.buf = <<>>]

\* mod_dirlisting_stream_append
mod_dirlisting_stream_append(S, fin, f) ==
    LET jb == S.q.h.buf IN
    IF ~fin /\ SeqBytes(jb) < 16384 - 1024 THEN S
    ELSE LET S1 == IF S.q.h.jfn # 0
                   THEN LET fail == ("write" \in f) /\ jb # <<>>
                            W == SysWrite(S, S.q.h.jfd, jb, fail)
                        IN IF fail THEN CacheStreamAbort(W) ELSE W
                   ELSE S
         IN \* http_chunk_append_buffer(r, jb): clears jb
            [S1 EXCEPT !.q.write_queue = @ \o jb, !.q.h.buf = <<>>]

\* Variant of mod_dirlisting_cache_stream_append_cq without the test of
\* r->resp_send_chunked.  With it C14_Chunked fails.
mod_dirlisting_cache_stream_append_cq_plain(S, f) ==
    IF S.q.write_queue = <<>> \/ S.q.h.jfd = 0 - 1 THEN S
    ELSE LET w == mod_dirlisting_write_cq(S, S.q.h.jfd, ("writecq" \in f))
         IN IF w.rc = 0 THEN CacheStreamAbort(w.S) ELSE w.S

\* mod_dirlisting_cache_stream_append_cq
mod_dirlisting_cache_stream_append_cq(S, f) ==
    IF S.q.write_queue = <<>> \/ S.q.h.jfd = 0 - 1 THEN S
    ELSE IF S.q.resp_send_chunked THEN CacheStreamAbort(S)
    ELSE LET w == mod_dirlisting_write_cq(S, S.q.h.jfd, ("writecq" \in f))
         IN IF w.rc = 0 THEN CacheStreamAbort(w.S) ELSE w.S

\* Variant of mod_dirlisting_cache_stream_add_footer that does not set the
\* queue of the response aside: the footer is appended to it and the whole
\* queue is copied to the temp file.  With it C15_Tee fails.
mod_dirlisting_cache_stream_add_footer_whole(S, f) ==
    mod_dirlisting_cache_stream_append_cq(
        [S EXCEPT !.q.write_queue = Append(@, TokFooter)], f)

\* Variant of mod_dirlisting_cache_stream_add_footer that puts the queue it
\* set aside back behind the footer instead of in front of it.  With it
\* C36_FooterLast fails.
mod_dirlisting_cache_stream_add_footer_front(S, f) ==
    LET in == S.q.write_queue
        S1 == [S EXCEPT !.q.write_queue = <<TokFooter>>]
        S2 == mod_dirlisting_cache_stream_append_cq(S1, f)
    IN [S2 EXCEPT !.q.write_queue = @ \o in]

\* mod_dirlisting_cache_stream_add_footer
mod_dirlisting_cache_stream_add_footer(S, f) ==
    LET in == S.q.write_queue
        S1 == [S EXCEPT !.q.write_queue = <<TokFooter>>]
        S2 == mod_dirlisting_cache_stream_append_cq(S1, f)
    IN [S2 EXCEPT !.q.write_queue = in \o @]

\* Variant of mod_dirlisting_cache_stream_init that opens one fixed temp
\* name, truncating it, instead of a name made by mkostemp.  With it
\* C19_Race fails.
mod_dirlisting_cache_stream_init_shared(S, f) ==
    IF ("mkdir" \in f) \/ ("mkostemp" \in f) THEN S
    ELSE LET S2 == [SysMkostemp(S, 1, S.q.h.jb)
                      EXCEPT !.q.h.jfd = 1, !.q.h.jfn = 1,
                             !.q.alloc = @ \cup {"jfn"}]
         IN IF S.q.h.hb THEN mod_dirlisting_cache_stream_append_cq(S2, f)
            ELSE S2

\* mod_dirlisting_cache_stream_init
mod_dirlisting_cache_stream_init(S, f) ==
    IF ("mkdir" \in f) THEN S
    ELSE IF ("mkostemp" \in f) \/ FreeTmp(S) = {} THEN S
    ELSE LET fd == CHOOSE t \in FreeTmp(S) : \A u \in FreeTmp(S) : t <= u
             S1 == SysMkostemp(S, fd, S.q.h.jb)
             S2 == [S1 EXCEPT !.q.h.jfd = fd, !.q.h.jfn = fd,
                              !.q.alloc = @ \cup {"jfn"}]
         IN IF S.q.h.hb THEN mod_dirlisting_cache_stream_append_cq(S2, f)
            ELSE S2

\* mod_dirlisting_cache_stream: commit of the streaming tee
mod_dirlisting_cache_stream(S, f) ==
    LET fn == S.q.h.jfn
        S0 == IF ~S.q.hdr_sent
              THEN [S EXCEPT !.q = mod_dirlisting_cache_etag(@)] ELSE S
        S1 == [SysClose(S0, S.q.h.jfd) EXCEPT !.q.h.jfd = 0 - 1]
        S2 == IF ~("rename" \in f)
              THEN LET R == SysRename(S1, fn, S1.fs.tmp[fn].json)
                   IN IF ~R.q.hdr_sent
                      THEN [R EXCEPT !.q = mod_dirlisting_cache_control(@)]
                      ELSE R
              ELSE SysUnlink(S1, fn)
    IN [S2 EXCEPT !.q.h.jfn = 0, !.q.alloc = @ \ {"jfn"}]


\* ------------------------------------------------------- cache, buffered
\* Variant of mod_dirlisting_cache_add that renames whatever was written.
\* With it C4_Published fails.
mod_dirlisting_cache_add_any(S, f) ==
    IF ("mkdir" \in f) THEN S
    ELSE IF ("mkostemp" \in f) \/ FreeTmp(S) = {} THEN S
    ELSE LET fd == CHOOSE t \in FreeTmp(S) : \A u \in FreeTmp(S) : t <= u
         IN SysRename(
                SysClose(mod_dirlisting_write_cq(SysMkostemp(S, fd, FALSE), fd,
                                                 ("writecq" \in f)).S, fd),
                fd, FALSE)

\* mod_dirlisting_cache_add: the whole response body into a temp file, then
\* rename to dirlist.html
mod_dirlisting_cache_add(S, f) ==
    IF ("mkdir" \in f) THEN S
    ELSE IF ("mkostemp" \in f) \/ FreeTmp(S) = {} THEN S
    ELSE LET fd == CHOOSE t \in FreeTmp(S) : \A u \in FreeTmp(S) : t <= u
             S1 == SysMkostemp(S, fd, FALSE)
             w == mod_dirlisting_write_cq(S1, fd, ("writecq" \in f))
             S2 == IF w.rc # 0
                   THEN [w.S EXCEPT !.q = mod_dirlisting_cache_etag(@)] ELSE w.S
             S3 == SysClose(S2, fd)
         IN IF w.rc # 0 /\ ~("rename" \in f)
            THEN [SysRename(S3, fd, FALSE)
                     EXCEPT !.q = mod_dirlisting_cache_control(@)]
            ELSE SysUnlink(S3, fd)

\* http_list_directory, the rows: up to 256 entries are rendered into a
\* buffer of the response body.  More are rendered into r->tmp_buf, which
\* reaches the body only through chunkqueue_append_mem_to_tempfile(): in the
\* loops (break when it fails) and after them (failure ignored).  With the
\* fault "spill" every such call of this rendering fails, and no row reaches
\* the body.
http_list_directory_rows(S, dirs, files, fail) ==
    IF Len(dirs) + Len(files) <= 256 \/ ~fail
    THEN [S EXCEPT !.q.write_queue =
                       @ \o [i \in 1..Len(dirs) |-> TokRow(dirs[i])]
                         \o [i \in 1..Len(files) |-> TokRow(files[i])]]
    ELSE [S EXCEPT !.q = Count(@, "spillerr")]

\* http_list_directory: both stores sorted, directories first, then files
http_list_directory(S, f) ==
    LET h == S.q.h
        dirs == IF Len(h.dirs) # 0 THEN http_dirls_sort(h.dirs) ELSE h.dirs
        files == IF Len(h.files) # 0 THEN http_dirls_sort(h.files) ELSE h.files
        n == (IF Len(h.dirs) # 0 THEN 1 ELSE 0) + (IF Len(h.files) # 0 THEN 1 ELSE 0)
    IN http_list_directory_rows(
           [S EXCEPT !.q.h.dirs = dirs, !.q.h.files = files,
                     !.q.ev.sorts = @ + n],
           dirs, files, ("spill" \in f))

\* mod_dirlisting_response: header, rows, footer, Content-Type
mod_dirlisting_response(S, f) ==
    LET S1 == [S EXCEPT !.q.write_queue = Append(@, TokHeader)]
        S2 == http_list_directory(S1, f)
        S3 == [S2 EXCEPT !.q.write_queue = Append(@, TokFooter)]
    IN [S3 EXCEPT !.q = mod_dirlisting_content_type(@)]

\* -------------------------------------------------------- cache lookup
CacheFile(S, json) == IF json THEN S.fs.json ELSE S.fs.html

\* Variant of mod_dirlisting_cache_check that looks up dirlist.html whatever
\* the mode.  With it C5_RoundTrip fails.
mod_dirlisting_cache_check_html(S, f) ==
    IF ~S.fs.html.ex \/ S.fs.html.age > conf.max_age \/ ("attach" \in f)
    THEN [S |-> S, rc |-> "GO_ON"]
    ELSE [S |-> [S EXCEPT !.q = [mod_dirlisting_cache_control(@) EXCEPT
                                   !.write_queue = @ \o S.fs.html.data,
                                   !.resp_body_finished = TRUE]],
          rc |-> "FINISHED"]

\* Variant of mod_dirlisting_cache_check without the test of the age.  With
\* it C17_Expiry fails.
mod_dirlisting_cache_check_ever(S, f) ==
    IF ~CacheFile(S, S.q.json).ex \/ ("attach" \in f)
    THEN [S |-> S, rc |-> "GO_ON"]
    ELSE [S |-> [S EXCEPT !.q = [mod_dirlisting_cache_control(@) EXCEPT
                                   !.write_queue = @ \o CacheFile(S, S.q.json).data,
                                   !.resp_body_finished = TRUE]],
          rc |-> "FINISHED"]

\* Variant of mod_dirlisting_cache_check whose test is
\* st_mtime + max_age <= log_epoch_secs: a file of age max_age is stale.
\* With it C16_Fresh fails.
mod_dirlisting_cache_check_strict(S, f) ==
    IF ~CacheFile(S, S.q.json).ex
       \/ CacheFile(S, S.q.json).age >= conf.max_age
       \/ ("attach" \in f)
    THEN [S |-> S, rc |-> "GO_ON"]
    ELSE [S |-> [S EXCEPT !.q = [mod_dirlisting_cache_control(@) EXCEPT
                                   !.write_queue = @ \o CacheFile(S, S.q.json).data,
                                   !.resp_body_finished = TRUE]],
          rc |-> "FINISHED"]

\* mod_dirlisting_cache_check: "FINISHED" on a fresh hit, else "GO_ON".
\* The fault "attach" is a cache file that is there and fresh but cannot be
\* opened (sce->fd == -1) or attached (http_chunk_append_file_ref != 0):
\* either way the response is left without body and Content-Type.
\* Variant of mod_dirlisting_cache_check that returns HANDLER_GO_ON from a
\* failed http_chunk_append_file_ref with the Content-Type it set and with
\* what the failed call left in the body.  With it C38_Rollback fails.
mod_dirlisting_cache_check_kept(S, f) ==
    LET sce == CacheFile(S, S.q.json) IN
    IF ~sce.ex THEN [S |-> S, rc |-> "GO_ON"]
    ELSE IF sce.age > conf.max_age
    THEN [S |-> [S EXCEPT !.q.stale = TRUE], rc |-> "GO_ON"]
    ELSE LET q1 == IF ~S.q.json THEN mod_dirlisting_content_type(S.q)
                   ELSE SetContentType(S.q, "Content-Type: application/json")
         IN IF ("attach" \in f)
            THEN [S |-> [S EXCEPT !.q = [q1 EXCEPT
                           !.write_queue = @ \o SubSeq(sce.data, 1, 1)]],
                  rc |-> "GO_ON"]
            ELSE LET q2 == [q1 EXCEPT !.write_queue = @ \o sce.data]
                     q3 == mod_dirlisting_cache_control(q2)
                     q4 == IF conf.etag THEN [q3 EXCEPT !.hdrs = @ \cup {"ETag"}]
                           ELSE q3
                     q5 == IF conf.auto_layout /\ ~S.q.json
                           THEN http_dirlist_auto_layout_early_hints(q4) ELSE q4
                 IN [S |-> [S EXCEPT !.q = [q5 EXCEPT !.resp_body_finished = TRUE]],
                     rc |-> "FINISHED"]

mod_dirlisting_cache_check(S, f) ==
    LET sce == CacheFile(S, S.q.json) IN
    IF ~sce.ex THEN [S |-> S, rc |-> "GO_ON"]
    ELSE IF sce.age > conf.max_age    \* st_mtime + max_age < log_epoch_secs
    THEN [S |-> [S EXCEPT !.q.stale = TRUE], rc |-> "GO_ON"]
    ELSE LET q1 == IF ~S.q.json THEN mod_dirlisting_content_type(S.q)
                   ELSE SetContentType(S.q, "Content-Type: application/json")
         IN IF ("attach" \in f)
            THEN \* http_chunk_append_file_ref failed: undo and scan
                 [S |-> [S EXCEPT !.q = [q1 EXCEPT
                           !.hdrs = @ \ {"Content-Type: text/html",
                                         "Content-Type: application/json"},
                           !.write_queue = <<>>]],
                  rc |-> "GO_ON"]
            ELSE LET q2 == [q1 EXCEPT !.write_queue = @ \o sce.data]
                     q3 == mod_dirlisting_cache_control(q2)
                     q4 == IF conf.etag THEN [q3 EXCEPT !.hdrs = @ \cup {"ETag"}]
                           ELSE q3
                     q5 == IF conf.auto_layout /\ ~S.q.json
                           THEN http_dirlist_auto_layout_early_hints(q4) ELSE q4
                 IN [S |-> [S EXCEPT !.q = [q5 EXCEPT !.resp_body_finished = TRUE]],
                     rc |-> "FINISHED"]

\* ------------------------------------------------------ the controller
\* mod_dirlisting_subrequest, HANDLER_FINISHED, streaming: ']' for JSON
mod_dirlisting_subrequest_bracket(T) ==
    IF T.q.h.jb THEN [T EXCEPT !.q.h.buf = Append(@, TokClose)] ELSE T

\* ... the footer of the HTML page
mod_dirlisting_subrequest_footer(A, f) ==
    IF A.q.h.hb THEN mod_dirlisting_cache_stream_add_footer(A, f) ELSE A

\* ... the commit of the cache file
mod_dirlisting_subrequest_commit(A, f) ==
    IF A.q.h.jfn # 0 THEN mod_dirlisting_cache_stream(A, f) ELSE A

\* mod_dirlisting_subrequest, HANDLER_FINISHED, buffered
mod_dirlisting_subrequest_buffered(B, f) ==
    IF conf.cache THEN mod_dirlisting_cache_add(B, f) ELSE B

\* mod_dirlisting_subrequest, case HANDLER_FINISHED
mod_dirlisting_subrequest_finished(T, f) ==
    [(IF T.q.h.jb \/ T.q.h.hb
      THEN mod_dirlisting_subrequest_commit(
               mod_dirlisting_subrequest_footer(
                   mod_dirlisting_stream_append(
                       mod_dirlisting_subrequest_bracket(T), TRUE, f), f), f)
      ELSE mod_dirlisting_subrequest_buffered(mod_dirlisting_response(T, f), f))
     EXCEPT !.q.resp_body_finished = TRUE]

\* Variant of mod_dirlisting_subrequest_wait without joblist_append.  With
\* it C9_Live fails.
mod_dirlisting_subrequest_wait_unqueued(T, f) ==
    IF T.q.h.jb \/ T.q.h.hb
    THEN mod_dirlisting_stream_append(T, FALSE, f) ELSE T

\* Variant of mod_dirlisting_subrequest_wait that renders what the stores
\* hold at every yield of a buffered request.  With it C23_Sequential fails.
mod_dirlisting_subrequest_wait_eager(T, f) ==
    [(IF T.q.h.jb \/ T.q.h.hb
      THEN mod_dirlisting_stream_append(T, FALSE, f)
      ELSE http_list_directory(T, f))
     EXCEPT !.q.sched = TRUE]

\* mod_dirlisting_subrequest, case HANDLER_WAIT_FOR_EVENT: joblist_append
mod_dirlisting_subrequest_wait(T, f) ==
    [(IF T.q.h.jb \/ T.q.h.hb
      THEN mod_dirlisting_stream_append(T, FALSE, f) ELSE T)
     EXCEPT !.q.sched = TRUE]

\* Variant of the switch of mod_dirlisting_subrequest whose HANDLER_FINISHED
\* case does not call mod_dirlisting_reset.  With it C1_Paired fails.
mod_dirlisting_subrequest_rc_held(rd, f) ==
    IF rd.rc = "FINISHED"
    THEN [S |-> mod_dirlisting_subrequest_finished(rd.S, f), rc |-> "FINISHED"]
    ELSE [S |-> mod_dirlisting_subrequest_wait(rd.S, f), rc |-> "WAIT"]

\* mod_dirlisting_subrequest, switch (rc)
mod_dirlisting_subrequest_rc(rd, f) ==
    IF rd.rc = "FINISHED"
    THEN [S |-> mod_dirlisting_reset(mod_dirlisting_subrequest_finished(rd.S, f)),
          rc |-> "FINISHED"]
    ELSE [S |-> mod_dirlisting_subrequest_wait(rd.S, f), rc |-> "WAIT"]

\* mod_dirlisting_subrequest
\* Variant of mod_dirlisting_subrequest without the test of the write queue.
\* With it C26_Deferred fails.
mod_dirlisting_subrequest_undeferred(S, f) ==
    IF ~S.q.plugin_ctx THEN [S |-> S, rc |-> "GO_ON"]
    ELSE mod_dirlisting_subrequest_rc(http_read_directory(S, f), f)

mod_dirlisting_subrequest(S, f) ==
    IF conf.bufmin /\ SeqBytes(S.q.write_queue) > 65536 - 4096
       /\ ~S.q.is_writable
    THEN [S |-> S, rc |-> "WAIT"]
    ELSE IF ~S.q.plugin_ctx THEN [S |-> S, rc |-> "GO_ON"]
    ELSE mod_dirlisting_subrequest_rc(http_read_directory(S, f), f)

\* what a request brings to the start handler
InputFields == [owned : BOOLEAN, slash : BOOLEAN,
                method : {"GET", "HEAD", "POST"},
                enabled : BOOLEAN, json : BOOLEAN, h2 : BOOLEAN]
\* the requests explored: requests the handler accepts (GET over HTTP/1.1,
\* HEAD over HTTP/2, each with and without ?json), and the requests that miss
\* exactly one of its four conditions
Inputs == {in \in InputFields :
             \/ ~in.owned /\ in.slash /\ in.method = "GET" /\ in.enabled /\ ~in.h2
             \/ ~in.owned /\ in.slash /\ in.method = "HEAD" /\ in.enabled /\ in.h2
             \/ in.owned /\ in.slash /\ in.method = "GET" /\ in.enabled /\ ~in.json /\ ~in.h2
             \/ ~in.owned /\ ~in.slash /\ in.method = "GET" /\ in.enabled /\ ~in.json /\ ~in.h2
             \/ ~in.owned /\ in.slash /\ in.method = "POST" /\ in.enabled /\ ~in.json /\ ~in.h2
             \/ ~in.owned /\ in.slash /\ in.method = "GET" /\ ~in.enabled /\ ~in.json /\ ~in.h2}

\* http_response_send_1xx (response.c): the interim response goes out and
\* r->http_status is cleared for the final response; 0 when sending fails
http_response_send_1xx(q, fail) ==
    [q |-> [Count(q, "h103") EXCEPT !.http_status = 0],
     ok |-> ~fail]

\* the status line the connection layer writes for a request whose handler
\* returned HANDLER_FINISHED: a status the handler left at 0 is sent as 200
StatusSent(q) == IF q.http_status = 0 THEN 200 ELSE q.http_status

\* mod_dirlisting_handler_ctx_init
mod_dirlisting_handler_ctx_init(S) ==
    [S EXCEPT !.q.h = [Hctx0 EXCEPT !.json = S.q.json],
              !.q.alloc = @ \cup {"hctx"}]

\* Variant of mod_dirlisting_subrequest_start_json that goes on into the
\* HTML branch: header queued, hb acquired.  With it C37_Mode fails.
mod_dirlisting_subrequest_start_json_html(S) ==
    [S EXCEPT !.q = SetContentType([@ EXCEPT !.h.jb = TRUE,
                                              !.h.buf = <<TokOpen>>,
                                              !.write_queue = Append(@, TokHeader),
                                              !.h.hb = TRUE,
                                              !.alloc = @ \cup {"buf"}],
                                   "Content-Type: application/json")]

\* mod_dirlisting_subrequest_start: JSON output
mod_dirlisting_subrequest_start_json(S) ==
    [S EXCEPT !.q = SetContentType([@ EXCEPT !.h.jb = TRUE,
                                              !.h.buf = <<TokOpen>>,
                                              !.alloc = @ \cup {"buf"}],
                                   "Content-Type: application/json")]

\* mod_dirlisting_subrequest_start: HTML output without sorting is streamed
mod_dirlisting_subrequest_start_hb(S) ==
    IF ~conf.sort
    THEN [S EXCEPT !.q = [mod_dirlisting_content_type(@) EXCEPT
                            !.write_queue = Append(@, TokHeader),
                            !.h.hb = TRUE,
                            !.alloc = @ \cup {"buf"}]]
    ELSE S

\* Variant of mod_dirlisting_subrequest_start_html that adds the Link headers
\* only for HTTP/2.  With it C28_Link fails.
mod_dirlisting_subrequest_start_html_bare(S) ==
    mod_dirlisting_subrequest_start_hb(
        IF conf.auto_layout /\ S.q.h2
        THEN [S EXCEPT !.q = http_dirlist_auto_layout_early_hints(@)]
        ELSE S)

\* mod_dirlisting_subrequest_start: HTML output
mod_dirlisting_subrequest_start_html(S) ==
    mod_dirlisting_subrequest_start_hb(
        IF conf.auto_layout
        THEN [S EXCEPT !.q = http_dirlist_auto_layout_early_hints(@)]
        ELSE S)

\* mod_dirlisting_subrequest_start: if (hctx->jb || hctx->hb)
mod_dirlisting_subrequest_start_stream(S, f) ==
    IF S.q.h.jb \/ S.q.h.hb
    THEN [(IF conf.cache
           THEN mod_dirlisting_cache_stream_init([S EXCEPT !.q.h.jfd = 0 - 1], f)
           ELSE [S EXCEPT !.q.h.jfd = 0 - 1])
          EXCEPT !.q.http_status = 200, !.q.resp_body_started = TRUE]
    ELSE S

\* mod_dirlisting_subrequest_start: the 103 Early Hints of a request that
\* yielded
mod_dirlisting_subrequest_start_103(sub, x) ==
    [S |-> [sub.S EXCEPT !.q = x.q],
     rc |-> IF x.ok THEN sub.rc ELSE "ERROR",
     path |-> "admitted"]

\* Variant of mod_dirlisting_subrequest_start_hints without the test of the
\* HTTP version.  With it C27_EarlyHints fails.
mod_dirlisting_subrequest_start_hints_http1(sub, f) ==
    IF sub.rc = "WAIT" /\ conf.auto_layout /\ ~sub.S.q.json
       /\ conf.external /\ ~sub.S.q.resp_body_started
    THEN mod_dirlisting_subrequest_start_103(
             sub,
             http_response_send_1xx([sub.S.q EXCEPT !.http_status = 103],
                                    ("send1xx" \in f)))
    ELSE [S |-> sub.S, rc |-> sub.rc, path |-> "admitted"]

mod_dirlisting_subrequest_start_hints(sub, f) ==
    IF sub.rc = "WAIT" /\ conf.auto_layout /\ ~sub.S.q.json
       /\ conf.external /\ ~sub.S.q.resp_body_started
       /\ sub.S.q.h2
    THEN mod_dirlisting_subrequest_start_103(
             sub,
             http_response_send_1xx([sub.S.q EXCEPT !.http_status = 103],
                                    ("send1xx" \in f)))
    ELSE [S |-> sub.S, rc |-> sub.rc, path |-> "admitted"]

\* mod_dirlisting_subrequest_start, once the directory is open
mod_dirlisting_subrequest_start_scan(S, f) ==
    mod_dirlisting_subrequest_start_hints(
        mod_dirlisting_subrequest(
            [mod_dirlisting_subrequest_start_stream(
                 IF S.q.json
                 THEN mod_dirlisting_subrequest_start_json(
                          [S EXCEPT !.p = @ + 1, !.q = Count(@, "inc")])
                 ELSE mod_dirlisting_subrequest_start_html(
                          [S EXCEPT !.p = @ + 1, !.q = Count(@, "inc")]),
                 f)
             EXCEPT !.q.plugin_ctx = TRUE, !.q.handler_module = TRUE],
            f),
        f)

\* Variant of mod_dirlisting_subrequest_start_open that returns 403 without
\* mod_dirlisting_handler_ctx_free.  With it C20_Forbidden fails.
mod_dirlisting_subrequest_start_open_kept(op, f) ==
    IF op.rc # 0
    THEN [S |-> [op.S EXCEPT !.q.http_status = 403],
          rc |-> "FINISHED", path |-> "forbidden"]
    ELSE mod_dirlisting_subrequest_start_scan(op.S, f)

\* mod_dirlisting_subrequest_start, after http_open_directory
mod_dirlisting_subrequest_start_open(op, f) ==
    IF op.rc # 0
    THEN [S |-> mod_dirlisting_handler_ctx_free(
                    [op.S EXCEPT !.q.http_status = 403]),
          rc |-> "FINISHED", path |-> "forbidden"]
    ELSE mod_dirlisting_subrequest_start_scan(op.S, f)

\* Variant of the admission check that admits every request.  With it
\* C2_Bounded fails.
mod_dirlisting_subrequest_start_admit_all(S, f) ==
    mod_dirlisting_subrequest_start_open(
        http_open_directory(mod_dirlisting_handler_ctx_init(S),
                            ("open" \in f)), f)

\* Variant of the admission check that rejects only above the ceiling.
\* With it C3_Busy fails.
mod_dirlisting_subrequest_start_admit_above(S, f) ==
    IF S.p > dirlist_max_in_progress
    THEN [S |-> [S EXCEPT !.q.http_status = 503,
                          !.q.hdrs = @ \cup {"Retry-After: 2"}],
          rc |-> "FINISHED", path |-> "busy"]
    ELSE mod_dirlisting_subrequest_start_open(
             http_open_directory(mod_dirlisting_handler_ctx_init(S),
                                 ("open" \in f)), f)

\* mod_dirlisting_subrequest_start, from the admission check on
mod_dirlisting_subrequest_start_admit(S, f) ==
    IF S.p = dirlist_max_in_progress
    THEN [S |-> [S EXCEPT !.q.http_status = 503,
                          !.q.hdrs = @ \cup {"Retry-After: 2"}],
          rc |-> "FINISHED", path |-> "busy"]
    ELSE mod_dirlisting_subrequest_start_open(
             http_open_directory(mod_dirlisting_handler_ctx_init(S),
                                 ("open" \in f)), f)

\* mod_dirlisting_subrequest_start, after the cache lookup
mod_dirlisting_subrequest_start_cached(cc, f) ==
    IF cc.rc # "GO_ON"
    THEN [S |-> cc.S, rc |-> cc.rc, path |-> "hit"]
    ELSE mod_dirlisting_subrequest_start_admit(cc.S, f)

\* Variant of mod_dirlisting_subrequest_start that makes the admission check
\* before the cache lookup.  With it C18_Hit fails.
mod_dirlisting_subrequest_start_counted(S, in, f) ==
    IF in.owned \/ S.q.handler_module \/ ~in.slash
       \/ in.method \notin {"GET", "HEAD"} \/ ~in.enabled
    THEN [S |-> S, rc |-> "GO_ON", path |-> "declined"]
    ELSE IF S.p = dirlist_max_in_progress
    THEN [S |-> [S EXCEPT !.q.http_status = 503,
                          !.q.hdrs = @ \cup {"Retry-After: 2"}],
          rc |-> "FINISHED", path |-> "busy"]
    ELSE mod_dirlisting_subrequest_start_cached(
             IF conf.cache
             THEN mod_dirlisting_cache_check([S EXCEPT !.q.json = in.json], f)
             ELSE [S |-> [S EXCEPT !.q.json = in.json], rc |-> "GO_ON"], f)

\* mod_dirlisting_subrequest_start
\* Variant of mod_dirlisting_subrequest_start without the test of the
\* method.  With it C29_Declined fails.
mod_dirlisting_subrequest_start_anymethod(S, in, f) ==
    IF in.owned \/ S.q.handler_module
    THEN [S |-> S, rc |-> "GO_ON", path |-> "declined"]
    ELSE IF ~in.slash THEN [S |-> S, rc |-> "GO_ON", path |-> "declined"]
    ELSE IF ~in.enabled THEN [S |-> S, rc |-> "GO_ON", path |-> "declined"]
    ELSE mod_dirlisting_subrequest_start_cached(
             IF conf.cache
             THEN mod_dirlisting_cache_check([S EXCEPT !.q.json = in.json], f)
             ELSE [S |-> [S EXCEPT !.q.json = in.json], rc |-> "GO_ON"], f)

mod_dirlisting_subrequest_start(S, in, f) ==
    IF in.owned \/ S.q.handler_module
    THEN [S |-> S, rc |-> "GO_ON", path |-> "declined"]
    ELSE IF ~in.slash THEN [S |-> S, rc |-> "GO_ON", path |-> "declined"]
    ELSE IF in.method \notin {"GET", "HEAD"}
    THEN [S |-> S, rc |-> "GO_ON", path |-> "declined"]
    ELSE IF ~in.enabled THEN [S |-> S, rc |-> "GO_ON", path |-> "declined"]
    ELSE mod_dirlisting_subrequest_start_cached(
             IF conf.cache
             THEN mod_dirlisting_cache_check([S EXCEPT !.q.json = in.json], f)
             ELSE [S |-> [S EXCEPT !.q.json = in.json], rc |-> "GO_ON"], f)

\* Variant of mod_dirlisting_set_defaults that keeps a cache with max-age 0.
\* With it C33_ZeroMaxAge fails.
mod_dirlisting_set_defaults_kept_zero(max_conns, max_age) ==
    LET m == max_conns \div 16
    IN [max_in_progress |-> IF m = 0 THEN 1 ELSE m,
        cache |-> TRUE,
        max_age |-> max_age]

\* mod_dirlisting_set_defaults: the ceiling, and a cache with max-age 0 is
\* no cache
mod_dirlisting_set_defaults(max_conns, max_age) ==
    LET m == max_conns \div 16
    IN [max_in_progress |-> IF m = 0 THEN 1 ELSE m,
        cache |-> max_age # 0,
        max_age |-> max_age]


\* ------------------------------------------------------------- actions
\* A slot of req is free (rc = "none") or holds a request that has yielded.
\* A step that completes a request leaves the request as the handler left it
\* in done, for one state; the server then resets the request
\* (handle_request_reset) and the slot is free again.
St(i) == [p |-> processing, q |-> req[i], fs |-> fs]

Body(q) == q.sent \o q.write_queue

Busy(i) == req[i].rc # "none"

\* the state after a handler returned rc on slot i with state S
Returned(i, S, rc) ==
    IF rc \in {"WAIT", "ERROR"}
    THEN /\ processing' = S.p
         /\ fs' = S.fs
         /\ req' = [req EXCEPT ![i] = [S.q EXCEPT !.rc = rc]]
         /\ done' = Req0
    ELSE LET R == mod_dirlisting_reset(S)
         IN /\ processing' = R.p
            /\ fs' = R.fs
            /\ req' = [req EXCEPT ![i] = Req0]
            /\ done' = [S.q EXCEPT !.rc = rc]

Started(i, x) == Returned(i, [x.S EXCEPT !.q.path = x.path], x.rc)

Resumed(i, x) == Returned(i, x.S, x.rc)

\* a new request arrives and the server calls handle_subrequest_start
Start(i) ==
    /\ ~Busy(i)
    /\ \A j \in Reqs : j < i => Busy(j)
    /\ \E in \in Inputs :
       \E f \in Faults(IF in.owned \/ ~in.slash \/ in.method = "POST" \/ ~in.enabled
                       THEN {}
                       ELSE CacheFaults \cup dir.faults \cup {"open"}
                            \cup (IF conf.cache THEN {"attach"} ELSE {})
                            \cup (IF conf.external /\ in.h2 /\ ~in.json
                                  THEN {"send1xx"} ELSE {})) :
         Started(i, mod_dirlisting_subrequest_start(
                        [St(i) EXCEPT !.q = [Req0 EXCEPT !.h2 = in.h2]], in, f))
    /\ UNCHANGED <<dirlist_max_in_progress, conf, dir, call>>

\* the connection of a request that yielded is in the job queue, and the
\* server re-invokes the request: handle_subrequest
Resume(i) ==
    /\ req[i].rc = "WAIT"
    /\ req[i].sched
    /\ \E f \in Faults(CacheFaults \cup dir.faults) :
         Resumed(i, mod_dirlisting_subrequest(
                        [St(i) EXCEPT !.q.sched = FALSE], f))
    /\ UNCHANGED <<dirlist_max_in_progress, conf, dir, call>>

\* the server ends a request in flight (client gone, error):
\* handle_request_reset
ServerReset(i) ==
    /\ Busy(i)
    /\ LET S == mod_dirlisting_reset(St(i))
       IN /\ processing' = S.p
          /\ fs' = S.fs
          /\ req' = [req EXCEPT ![i] = Req0]
          /\ done' = [S.q EXCEPT !.rc = "RESET"]
    /\ UNCHANGED <<dirlist_max_in_progress, conf, dir, call>>

\* the connection layer sends the response headers of a streamed response;
\* an HTTP/1.1 response of unknown length goes out chunked
SendHeaders(i) ==
    /\ Busy(i)
    /\ req[i].resp_body_started
    /\ ~req[i].hdr_sent
    /\ req' = [req EXCEPT ![i].hdr_sent = TRUE,
                          ![i].resp_send_chunked = ~req[i].h2]
    /\ done' = Req0
    /\ UNCHANGED <<processing, dirlist_max_in_progress, conf, dir, fs, call>>

\* the transport takes what is queued; the write event puts the connection
\* in the job queue
Drain(i) ==
    /\ Busy(i)
    /\ req[i].hdr_sent
    /\ req[i].write_queue # <<>>
    /\ req' = [req EXCEPT ![i].sent = @ \o req[i].write_queue,
                          ![i].write_queue = <<>>,
                          ![i].is_writable = TRUE,
                          ![i].sched = (req[i].rc = "WAIT")]
    /\ done' = Req0
    /\ UNCHANGED <<processing, dirlist_max_in_progress, conf, dir, fs, call>>

\* the socket buffer is full: the connection is not writable
\* a write to the socket would block: r->con->is_writable = 0
WriteBlocked(i) ==
    /\ Busy(i)
    /\ req[i].hdr_sent
    /\ req[i].write_queue # <<>>
    /\ req[i].is_writable
    /\ req' = [req EXCEPT ![i].is_writable = FALSE]
    /\ done' = Req0
    /\ UNCHANGED <<processing, dirlist_max_in_progress, conf, dir, fs, call>>

\* the same where the module reads is_writable: with
\* FDEVENT_STREAM_RESPONSE_BUFMIN
Block(i) ==
    /\ conf.bufmin
    /\ WriteBlocked(i)

\* a second passes: every file is a second older
Older(file) == IF file.ex \/ ("open" \in DOMAIN file /\ file.open)
               THEN [file EXCEPT !.age = IF @ < MaxTime THEN @ + 1 ELSE @]
               ELSE file

Tick ==
    /\ fs' = [tmp |-> [t \in TmpIds |-> Older(fs.tmp[t])],
              html |-> Older(fs.html), json |-> Older(fs.json)]
    /\ fs' # fs
    /\ done' = Req0
    /\ UNCHANGED <<processing, dirlist_max_in_progress, conf, dir, req, call>>

\* the state after mod_dirlisting_set_defaults, for one of the servers ss
\* the plugin after set_defaults, no request in flight
Idle(ss) ==
    /\ processing = 0
    /\ \E s \in ss :
         LET d == mod_dirlisting_set_defaults(s.max_conns, s.max_age)
         IN /\ dirlist_max_in_progress = d.max_in_progress
            /\ conf = [max_conns |-> s.max_conns,
                       cache |-> d.cache, max_age |-> d.max_age,
                       sort |-> s.sort, auto_layout |-> TRUE,
                       external |-> s.external, etag |-> TRUE,
                       bufmin |-> s.bufmin,
                       hide_dot_files |-> s.hide_dot_files,
                       hide_readme_file |-> s.hide_readme_file,
                       show_readme |-> s.show_readme,
                       hide_header_file |-> s.hide_header_file,
                       show_header |-> s.show_header,
                       excludes |-> s.excludes]
            /\ dir = [n |-> s.n, long |-> s.long, faults |-> s.faults,
                      mixed |-> s.mixed, order |-> s.order]
    /\ req = [i \in Reqs |-> Req0]
    /\ fs = Fs0
    /\ done = Req0

InitOf(ss) == Idle(ss) /\ call = NoCall

Init == InitOf(Setups)

Next ==
    \/ \E i \in Reqs : Start(i)
    \/ \E i \in Reqs : Resume(i)
    \/ \E i \in Reqs : ServerReset(i)
    \/ \E i \in Reqs : SendHeaders(i)
    \/ \E i \in Reqs : Drain(i)
    \/ \E i \in Reqs : Block(i)
    \/ Tick

Spec == Init /\ [][Next]_vars

\* the server ends a request whose handler returned HANDLER_ERROR
ErrorReset(i) ==
    /\ req[i].rc = "ERROR"
    /\ ServerReset(i)

\* Next without the abort of a request that is being served
LiveNext ==
    \/ \E i \in Reqs : Start(i)
    \/ \E i \in Reqs : Resume(i)
    \/ \E i \in Reqs : ErrorReset(i)
    \/ \E i \in Reqs : SendHeaders(i)
    \/ \E i \in Reqs : Drain(i)
    \/ \E i \in Reqs : Block(i)
    \/ Tick

\* The job queue is served (a connection in it is re-invoked), the transport
\* takes what is queued, and a request that failed is ended.  The servers are
\* those without a cache, and with a cache those whose directory is listed
\* in one batch.
LiveSetups == {s \in Setups : s.max_age = 0 \/ s.n < DIRLIST_BATCH}

LiveInit == InitOf(LiveSetups)

\* Resume(i) and ErrorReset(i) change the state whenever their guards hold,
\* so ENABLED <<Resume(i)>>_vars is Queued(i) and ENABLED <<ErrorReset(i)>>_vars
\* is Failed(i); the weak fairness of the two is written with the guards.
Queued(i) == req[i].rc = "WAIT" /\ req[i].sched
Failed(i) == req[i].rc = "ERROR"

LiveSpec ==
    /\ LiveInit
    /\ [][LiveNext]_vars
    /\ \A i \in Reqs : WF_vars(Drain(i))
    /\ \A i \in Reqs : <>[]Queued(i) => []<><<Resume(i)>>_vars
    /\ \A i \in Reqs : <>[]Failed(i) => []<><<ErrorReset(i)>>_vars

\* Servers whose host shows a failure of readdir() in the middle of the
\* stream (one with a cache, one that streams), and one whose temporary
\* storage cannot be written and whose directory has 257 entries to list
FaultySetup(s, K) == [s EXCEPT !.faults = K]
ErrSetups == {
    FaultySetup(Setup(8, 1, TRUE,  FALSE, FALSE, 33,  FALSE), {"readdir"}),
    FaultySetup(Setup(8, 0, FALSE, TRUE,  FALSE, 65,  TRUE),  {"readdir"}),
    FaultySetup(Setup(8, 0, TRUE,  FALSE, FALSE, 430, FALSE), {"spill"}) }

ErrInit == InitOf(ErrSetups)

ErrSpec == ErrInit /\ [][Next]_vars

\* A server with a cache whose ceiling is 2, so that two scans of the
\* directory can be suspended at once, each with its temp file.  The
\* requests are started, resumed at their yield points in any order and
\* ended by the server; the clock stands still and the connection layer
\* sends nothing.
RaceSetups == { Setup(32, 1, FALSE, FALSE, FALSE, 33, TRUE) }

RaceInit == InitOf(RaceSetups)

RaceNext ==
    \/ \E i \in Reqs : Start(i)
    \/ \E i \in Reqs : Resume(i)
    \/ \E i \in Reqs : ServerReset(i)

RaceSpec == RaceInit /\ [][RaceNext]_vars

\* Servers whose directory holds every kind of entry, 40 of them (two
\* batches), under three settings of what is hidden; without a cache, so
\* that the clock has nothing to do.
MixedSetup(s, dot, hr, sr, hh, sh, ex) ==
    [s EXCEPT !.mixed = TRUE, !.hide_dot_files = dot,
              !.hide_readme_file = hr, !.show_readme = sr,
              !.hide_header_file = hh, !.show_header = sh, !.excludes = ex]
ScanSetups == {
    MixedSetup(Setup(8, 0, TRUE,  FALSE, FALSE, 40, FALSE),
               TRUE,  TRUE,  TRUE,  TRUE,  TRUE,  TRUE),
    MixedSetup(Setup(8, 0, FALSE, TRUE,  FALSE, 40, TRUE),
               FALSE, FALSE, TRUE,  TRUE,  FALSE, FALSE),
    MixedSetup(Setup(8, 0, TRUE,  FALSE, FALSE, 40, FALSE),
               FALSE, TRUE,  FALSE, TRUE,  TRUE,  TRUE),
    MixedSetup(Setup(8, 0, FALSE, FALSE, FALSE, 64, FALSE),
               TRUE,  FALSE, FALSE, FALSE, FALSE, TRUE) }

ScanInit == InitOf(ScanSetups)

ScanNext ==
    \/ \E i \in Reqs : Start(i)
    \/ \E i \in Reqs : Resume(i)
    \/ \E i \in Reqs : ServerReset(i)
    \/ \E i \in Reqs : SendHeaders(i)
    \/ \E i \in Reqs : Drain(i)
    \/ \E i \in Reqs : Block(i)

ScanSpec == ScanInit /\ [][ScanNext]_vars

\* Servers that sort, for the sort: directories of 12 entries (two
\* directories and four files are listed) whose names come in every order,
\* and directories of 64 entries (12 directories and 25 files are listed)
\* whose names ascend, descend, or are mixed.  No cache, no streaming of HTML.
OrderedSetup(s, order) == [s EXCEPT !.order = order]

\* the names perm, given to the entries that are listed, in stream order
OrderOf(n, perm) ==
    [i \in 1..n |->
        IF EntKind(i) \in {"dir", "file"}
        THEN perm[Cardinality({j \in 1..i : EntKind(j) \in {"dir", "file"}})]
        ELSE 100 + i]

SortSetups ==
    {OrderedSetup(Setup(8, 0, TRUE, FALSE, FALSE, 12, FALSE), OrderOf(12, perm)) :
        perm \in Permutations(1..6)}
    \cup {OrderedSetup(Setup(8, 0, TRUE, FALSE, FALSE, 64, FALSE), o) :
             o \in {<<>>, [i \in 1..64 |-> i], [i \in 1..64 |-> 65 - i]}}

\* ------------------------------------------------ a slow client
\* A directory of long names listed unsorted, with and without
\* FDEVENT_STREAM_RESPONSE_BUFMIN; the socket may block in both.
BackSetups == {
    Setup(8, 0, FALSE, TRUE,  FALSE, 65, TRUE),
    Setup(8, 0, FALSE, FALSE, FALSE, 65, TRUE) }

BackInit == InitOf(BackSetups)

BackNext ==
    \/ \E i \in Reqs : Start(i)
    \/ \E i \in Reqs : Resume(i)
    \/ \E i \in Reqs : ServerReset(i)
    \/ \E i \in Reqs : SendHeaders(i)
    \/ \E i \in Reqs : Drain(i)
    \/ \E i \in Reqs : WriteBlocked(i)

BackSpec == BackInit /\ [][BackNext]_vars

\* ------------------------------------------------ early hints
\* External stylesheet configured: a listing of two batches, one that is
\* finished within the start call, an unsorted one, a cached one; and a
\* listing without external resources.
HintSetups == {
    Setup(8, 0, TRUE,  FALSE, TRUE,  33, FALSE),
    Setup(8, 0, TRUE,  FALSE, TRUE,  3,  FALSE),
    Setup(8, 0, FALSE, FALSE, TRUE,  33, FALSE),
    Setup(8, 1, TRUE,  FALSE, TRUE,  33, FALSE),
    Setup(8, 0, TRUE,  FALSE, FALSE, 33, FALSE) }

HintInit == InitOf(HintSetups)

HintNext ==
    \/ \E i \in Reqs : Start(i)
    \/ \E i \in Reqs : Resume(i)
    \/ \E i \in Reqs : ServerReset(i)
    \/ \E i \in Reqs : SendHeaders(i)
    \/ \E i \in Reqs : Drain(i)

HintSpec == HintInit /\ [][HintNext]_vars

\* ------------------------------------------------ JSON output
\* Directories whose listing is empty, fits one batch, takes two and three
\* batches, or ends on a batch boundary; one of them cached.
JsonSetups == {
    Setup(8, 0, TRUE,  FALSE, FALSE, 2,  FALSE),
    Setup(8, 0, TRUE,  FALSE, FALSE, 3,  FALSE),
    Setup(8, 1, TRUE,  FALSE, FALSE, 33, FALSE),
    Setup(8, 0, TRUE,  FALSE, FALSE, 64, FALSE),
    Setup(8, 0, FALSE, TRUE,  FALSE, 65, TRUE) }

JsonInit == InitOf(JsonSetups)

JsonNext ==
    \/ \E i \in Reqs : Start(i)
    \/ \E i \in Reqs : Resume(i)
    \/ \E i \in Reqs : ServerReset(i)
    \/ \E i \in Reqs : SendHeaders(i)
    \/ \E i \in Reqs : Drain(i)

JsonSpec == JsonInit /\ [][JsonNext]_vars

\* ------------------------------------------------ the path buffer
\* uint32_t values, as two halves of 16 bits
Half == 65536
U32(n) == [hi |-> (n \div Half) % Half, lo |-> n % Half]
U32Add(a, b) ==
    [hi |-> (a.hi + b.hi + (a.lo + b.lo) \div Half) % Half,
     lo |-> (a.lo + b.lo) % Half]
U32Sub(a, b) ==
    [hi |-> (a.hi - b.hi - (IF a.lo < b.lo THEN 1 ELSE 0)) % Half,
     lo |-> (a.lo - b.lo) % Half]
U32Less(a, b) == a.hi < b.hi \/ (a.hi = b.hi /\ a.lo < b.lo)

PATH_MAX == 4096

\* http_open_directory: hctx->name_max = PATH_MAX - dlen - 1
http_open_directory_name_max(dlen) ==
    U32Sub(U32Sub(U32(PATH_MAX), U32(dlen)), U32(1))

\* http_open_directory: hctx->path = ck_malloc(dlen + hctx->name_max + 1) and
\* memcpy(hctx->path, r->physical.path.ptr, dlen+1); size is what is
\* allocated, used the end of what is written
http_open_directory_path(c) ==
    [c EXCEPT !.pc = "open",
              !.name_max = http_open_directory_name_max(c.dlen),
              !.size = U32Add(U32Add(U32(c.dlen),
                                     http_open_directory_name_max(c.dlen)),
                              U32(1)),
              !.used = c.dlen + 1]

\* Variant of http_read_directory_name that cuts a long name to name_max
\* bytes.  With it C31_NameMax fails.
http_read_directory_name_truncated(c, dsz) ==
    LET n == IF U32Less(c.name_max, U32(dsz))
             THEN c.name_max.hi * Half + c.name_max.lo ELSE dsz
    IN [c EXCEPT !.pc = "read", !.dsz = dsz, !.kept = TRUE,
                 !.namelen = n, !.copied = n + 1,
                 !.used = IF c.dlen + n + 1 > @ THEN c.dlen + n + 1 ELSE @]

\* http_read_directory, the name of one entry: if (dsz > p->name_max)
\* continue; memcpy(p->path_file, d_name, dsz + 1) (builds without
\* _ATFILE_SOURCE); ent.namelen = dsz; memcpy(DIRLIST_ENT_NAME(tmp), d_name,
\* ent.namelen + 1)
http_read_directory_name(c, dsz) ==
    IF U32Less(c.name_max, U32(dsz))
    THEN [c EXCEPT !.pc = "read", !.dsz = dsz, !.kept = FALSE,
                   !.namelen = 0, !.copied = 0]
    ELSE [c EXCEPT !.pc = "read", !.dsz = dsz, !.kept = TRUE,
                   !.namelen = dsz, !.copied = dsz + 1,
                   !.used = IF c.dlen + dsz + 1 > @ THEN c.dlen + dsz + 1 ELSE @]

\* lengths of r->physical.path, around PATH_MAX, and of d_name, around
\* NAME_MAX
PathLens == {1, 2, 11, 100, 1000, 3840, 3841, 3842, 4000, 4093, 4094, 4095,
             4096, 4097, 5000}
NameLens == {1, 2, 3, 10, 95, 96, 100, 253, 254, 255, 256, 1000}

OpenCall(dlen) ==
    [fn |-> "http_open_directory", pc |-> "entry", dlen |-> dlen,
     name_max |-> U32(0), size |-> U32(0), used |-> 0,
     dsz |-> 0, kept |-> FALSE, namelen |-> 0, copied |-> 0]

PathInit ==
    /\ Idle({Setup(8, 0, TRUE, FALSE, FALSE, 3, FALSE)})
    /\ call \in {OpenCall(dlen) : dlen \in PathLens}

\* http_open_directory up to opendir()
OpenPath ==
    /\ call.pc = "entry"
    /\ call' = http_open_directory_path(call)
    /\ UNCHANGED <<processing, dirlist_max_in_progress, conf, dir, req, fs, done>>

\* one turn of the loop of http_read_directory, as far as the name goes
ReadName ==
    /\ call.pc \in {"open", "read"}
    /\ \E dsz \in NameLens : call' = http_read_directory_name(call, dsz)
    /\ UNCHANGED <<processing, dirlist_max_in_progress, conf, dir, req, fs, done>>

PathNext == OpenPath \/ ReadName

PathSpec == PathInit /\ [][PathNext]_vars

\* ------------------------------------------------ the size column
\* An off_t is kept as its seven groups of ten bits, the lowest first: the
\* function only masks with 1023 and shifts by 10.
Limbs == 7
Off(d0, d1, d2, d3, d4, d5, d6) == <<d0, d1, d2, d3, d4, d5, d6>>

\* size & ~1023
HighBits(size) == \E k \in 2..Limbs : size[k] # 0

\* size >>= 10
Shr10(size) == [k \in 1..Limbs |-> IF k < Limbs THEN size[k + 1] ELSE 0]

\* number of decimal digits li_itostrn writes for n
DecLen(n) == IF n < 10 THEN 1 ELSE IF n < 100 THEN 2 ELSE IF n < 1000 THEN 3 ELSE 4

Units == <<"K", "M", "G", "T", "P", "E">>

\* Variant of http_list_directory_sizefmt_round that leaves small sizes as
\* they are.  With it C32_SizeFmt fails.
http_list_directory_sizefmt_round_exact(c) == [c EXCEPT !.pc = "loop"]

\* http_list_directory_sizefmt: if (0 < size && size < 100) size += 99;
http_list_directory_sizefmt_round(c) ==
    IF ~HighBits(c.size) /\ 0 < c.size[1] /\ c.size[1] < 100
    THEN [c EXCEPT !.pc = "loop", !.size[1] = @ + 99]
    ELSE [c EXCEPT !.pc = "loop"]

\* one turn of do { remain = size & 1023; size >>= 10; ++u; }
\* while (size & ~1023);
http_list_directory_sizefmt_shift(c) ==
    [c EXCEPT !.remain = c.size[1],
              !.size = Shr10(c.size),
              !.u = @ + 1,
              !.pc = IF HighBits(Shr10(c.size)) THEN "loop" ELSE "scaled"]

\* after the loop size is below 1024
http_list_directory_sizefmt_carry(c) ==
    IF c.size[1] > 999
    THEN [c EXCEPT !.size[1] = 0, !.remain = 9, !.u = @ + 1]
    ELSE c

\* remain /= 100; if (remain > 9) remain = 9; then the carry, and the text:
\* the integer part, '.', one digit and "KMGTPE"[u], unless the buffer of
\* bufsz bytes is too small for them
http_list_directory_sizefmt_text(c, bufsz) ==
    [c EXCEPT !.pc = "done",
              !.out = [int |-> c.size[1], frac |-> c.remain,
                       unit |-> IF DecLen(c.size[1]) + 3 >= bufsz THEN "none"
                                ELSE IF c.u \in 0..5 THEN Units[c.u + 1]
                                ELSE "outside"]]

http_list_directory_sizefmt_finish(c, bufsz) ==
    http_list_directory_sizefmt_text(
        http_list_directory_sizefmt_carry(
            [c EXCEPT !.remain = IF c.remain \div 100 > 9 THEN 9
                                 ELSE c.remain \div 100]), bufsz)

\* sizes 0..198 and around 1000 and 1024, and sizes whose highest group,
\* at any of the seven places, is followed by a group at either side of a
\* tenth of 1024 and by all zeros or all ones; st_size is at most 2^63 - 1
LowSizes == {0, 1, 2, 50, 98, 99, 100, 101, 198, 199, 200, 512, 998, 999,
             1000, 1001, 1022, 1023}
TopGroups(k) == IF k = Limbs THEN {1, 6, 7} ELSE {1, 99, 999, 1000, 1023}
NextGroups == {0, 99, 100, 899, 900, 999, 1000, 1023}
SizeOf(k, top, next, low) ==
    [j \in 1..Limbs |-> IF j > k THEN 0 ELSE IF j = k THEN top
                        ELSE IF j = k - 1 THEN next ELSE low]
Sizes ==
    {Off(n, 0, 0, 0, 0, 0, 0) : n \in LowSizes}
    \cup UNION {{SizeOf(k, top, next, low) :
                    top \in TopGroups(k), next \in NextGroups, low \in {0, 1023}} :
                k \in 2..Limbs}

SizeCall(size) ==
    [fn |-> "http_list_directory_sizefmt", pc |-> "entry", arg |-> size,
     size |-> size, remain |-> 0, u |-> 0 - 1,
     out |-> [int |-> 0, frac |-> 0, unit |-> "none"]]

SizeInit ==
    /\ Idle({Setup(8, 0, TRUE, FALSE, FALSE, 3, FALSE)})
    /\ call \in {SizeCall(size) : size \in Sizes}

SizeRound ==
    /\ call.pc = "entry"
    /\ call' = http_list_directory_sizefmt_round(call)
    /\ UNCHANGED <<processing, dirlist_max_in_progress, conf, dir, req, fs, done>>

SizeShift ==
    /\ call.pc = "loop"
    /\ call' = http_list_directory_sizefmt_shift(call)
    /\ UNCHANGED <<processing, dirlist_max_in_progress, conf, dir, req, fs, done>>

\* char sizebuf[sizeof("999.9K")]
SizeFinish ==
    /\ call.pc = "scaled"
    /\ call' = http_list_directory_sizefmt_finish(call, 7)
    /\ UNCHANGED <<processing, dirlist_max_in_progress, conf, dir, req, fs, done>>

SizeNext == SizeRound \/ SizeShift \/ SizeFinish

SizeSpec == SizeInit /\ [][SizeNext]_vars

\* ------------------------------------------------ small directories
\* Directories of 29, 30 and 31 children ('.' and '..' are two more entries
\* of the stream), sorted and streamed, with the ceiling at 1.
SlotSetups == {
    Setup(8, 0, TRUE,  FALSE, FALSE, 31, FALSE),
    Setup(8, 0, TRUE,  FALSE, FALSE, 32, FALSE),
    Setup(8, 0, TRUE,  FALSE, FALSE, 33, FALSE),
    Setup(8, 0, FALSE, FALSE, FALSE, 31, FALSE),
    Setup(8, 0, FALSE, FALSE, FALSE, 32, FALSE) }

SlotInit == InitOf(SlotSetups)

SlotNext ==
    \/ \E i \in Reqs : Start(i)
    \/ \E i \in Reqs : Resume(i)
    \/ \E i \in Reqs : ServerReset(i)

SlotSpec == SlotInit /\ [][SlotNext]_vars

\* ------------------------------------------------------ the comb sort
\* http_dirls_sort taken by itself, one action for the update of the gap and
\* one for the inner loop.  gap is an int (32 bits): gap * 10 does not fit
\* when gap > INT_MAX / 10, and the build then gives either the wrapped
\* product or (the compiler may widen) the exact quotient.
INT_MAX == 2147483647

\* v / 13 in C: the quotient is truncated toward zero
CDiv13(v) ==
    IF v >= 0 THEN v \div 13
    ELSE LET m == 0 - (v + 1)
         IN 0 - ((m \div 13) + (IF m % 13 = 12 THEN 1 ELSE 0))

\* gap * 10 reduced to 32 bits, two's complement, computed on 16-bit halves
WrapMul10(gap) ==
    LET lo10 == (gap % Half) * 10
        h == ((gap \div Half) * 10 + lo10 \div Half) % Half
        l == lo10 % Half
    IN IF h < Half \div 2 THEN h * Half + l ELSE (h - Half) * Half + l

\* the values (gap * 10) / 13 can have
http_dirls_sort_shrink(gap) ==
    IF gap <= INT_MAX \div 10 THEN {(gap * 10) \div 13}
    ELSE {CDiv13(WrapMul10(gap)),
          10 * (gap \div 13) + (10 * (gap % 13)) \div 13}

\* Variant of http_dirls_sort_gaps that replaces the gaps 8, 9 and 10 by 11.
\* With it C39_Terminates fails.
http_dirls_sort_gaps_wide(gap) ==
    {IF g1 \in {8, 9, 10} THEN 11 ELSE IF g1 < 1 THEN 1 ELSE g1 :
        g1 \in http_dirls_sort_shrink(gap)}

\* the head of the do-loop: the values the next gap can have
http_dirls_sort_gaps(gap) ==
    {IF g1 = 9 \/ g1 = 10 THEN 11 ELSE IF g1 < 1 THEN 1 ELSE g1 :
        g1 \in http_dirls_sort_shrink(gap)}

\* the arrays sorted: every array of up to MaxComb names out of CombNames,
\* the descending arrays of the lengths in CombLens (first gaps 6 to 11, and
\* 9 and 10 replaced), and ascending arrays of the lengths in CombHuge, too
\* long to be written out: on those no comparison finds a pair out of order
MaxComb == 4
CombNames == 1..3
CombLens == {9, 10, 11, 12, 13, 14, 15, 20}
CombHuge == {1000, INT_MAX \div 10, INT_MAX \div 10 + 1, 500000000, INT_MAX}
Descending(n) == [k \in 1..n |-> n + 1 - k]

CombCall(ent, num) ==
    [fn |-> "http_dirls_sort", pc |-> "gap", arg |-> ent, ent |-> ent,
     num |-> num, gap |-> num, swapped |-> FALSE]

CombInit ==
    /\ Idle({Setup(8, 0, TRUE, FALSE, FALSE, 3, FALSE)})
    /\ call \in {CombCall(ent, Len(ent)) :
                   ent \in UNION {[1..n -> CombNames] : n \in 0..MaxComb}}
              \cup {CombCall(Descending(n), n) : n \in CombLens}
              \cup {CombCall(<<>>, n) : n \in CombHuge}

\* gap = (gap * 10) / 13; if (gap == 9 || gap == 10) gap = 11;
\* if (gap < 1) gap = 1; swapped = 0;
CombGap ==
    /\ call.fn = "http_dirls_sort" /\ call.pc = "gap"
    /\ \E g \in http_dirls_sort_gaps(call.gap) :
          call' = [call EXCEPT !.gap = g, !.swapped = FALSE, !.pc = "pass"]
    /\ UNCHANGED <<processing, dirlist_max_in_progress, conf, dir, req, fs, done>>

\* the inner loop and the test of the do-loop
CombPass ==
    /\ call.fn = "http_dirls_sort" /\ call.pc = "pass"
    /\ LET r == IF call.num = Len(call.ent)
                THEN http_dirls_sort_pass(call.ent, call.gap, 0, FALSE)
                ELSE [ent |-> call.ent, swapped |-> FALSE]
       IN call' = [call EXCEPT !.ent = r.ent, !.swapped = r.swapped,
                               !.pc = IF call.gap > 1 \/ r.swapped
                                      THEN "gap" ELSE "done"]
    /\ UNCHANGED <<processing, dirlist_max_in_progress, conf, dir, req, fs, done>>

CombNext == CombGap \/ CombPass

\* the function runs to its end once called: nothing suspends it
CombSpec == CombInit /\ [][CombNext]_vars /\ WF_vars(CombNext)

SortInit == InitOf(SortSetups)

SortNext ==
    \/ \E i \in Reqs : Start(i)
    \/ \E i \in Reqs : Resume(i)
    \/ \E i \in Reqs : ServerReset(i)

SortSpec == SortInit /\ [][SortNext]_vars

\* ------------------------------------------------- the expected listing
\* What a listing of the directory has to be, stated without the program's
\* batches, stores and sort: the visible entries in directory order
RECURSIVE Visible(_)
Visible(n) ==
    IF n = 0 THEN <<>>
    ELSE IF EntKind(n) \in {"dir", "file"} THEN Append(Visible(n - 1), n)
    ELSE Visible(n - 1)

RECURSIVE Ascending(_)
Ascending(names) ==
    IF names = {} THEN <<>>
    ELSE LET m == CHOOSE x \in names : \A y \in names : x <= y
         IN <<m>> \o Ascending(names \ {m})

NamesOf(n, kind) == {EntName(i) : i \in {j \in 1..n : EntKind(j) = kind}}

ListingOf(n, sort, json) ==
    LET vis == Visible(n) IN
    IF json
    THEN <<TokOpen>> \o [k \in 1..Len(vis) |-> TokObj(EntName(vis[k]), k > 1)]
                     \o <<TokClose>>
    ELSE IF sort
    THEN <<TokHeader>> \o Ascending(NamesOf(n, "dir"))
                       \o Ascending(NamesOf(n, "file")) \o <<TokFooter>>
    ELSE <<TokHeader>> \o [k \in 1..Len(vis) |-> TokRow(EntName(vis[k]))]
                       \o <<TokFooter>>

ListingTable ==
    [n \in {s.n : s \in Setups}, sort \in BOOLEAN, json \in BOOLEAN |->
        ListingOf(n, sort, json)]

\* the body of a complete response in the mode json
Listing(json) == ListingTable[dir.n, conf.sort, json]

IsPrefix(a, b) == Len(a) <= Len(b) /\ a = SubSeq(b, 1, Len(a))

\* the requests the start handler accepts
Accepted == {in \in Inputs : ~in.owned /\ in.slash /\ in.enabled
                             /\ in.method \in {"GET", "HEAD"}}

\* a request in arrives now: what the start handler does with it
Arrival(in, f) ==
    mod_dirlisting_subrequest_start(
        [p |-> processing, q |-> [Req0 EXCEPT !.h2 = in.h2], fs |-> fs], in, f)

\* ---------------------------------------------------------------- claims

\* C1: every admitted request increments the in-flight counter exactly once
\* and decrements it exactly once, at completion or at reset, whichever is
\* first; a request that is declined, served from the cache, rejected with
\* 503 or failed with 403 never changes the counter.  So the counter is the
\* number of requests that hold a scan context.
C1_Paired ==
    /\ processing = Cardinality({i \in Reqs : req[i].plugin_ctx})
    /\ \A i \in Reqs :
         Busy(i) => /\ req[i].path = "admitted"
                    /\ req[i].plugin_ctx
                    /\ req[i].ev.inc = 1
                    /\ req[i].ev.dec = 0
    /\ done.path = "admitted" => /\ ~done.plugin_ctx
                                 /\ done.ev.inc = 1
                                 /\ done.ev.dec = 1
    /\ done.path \in {"declined", "hit", "busy", "forbidden"} =>
         /\ ~done.plugin_ctx
         /\ done.ev.inc = 0
         /\ done.ev.dec = 0

\* a request was reset while a second one is in flight
C1_Witness ==
    /\ done.rc = "RESET"
    /\ done.ev.inc = 1
    /\ done.ev.dec = 1
    /\ processing = 1

\* C2: 0 <= p->processing <= dirlist_max_in_progress in every reachable
\* state, the ceiling is max(1, floor(max_conns / 16)), and no more scans
\* than the ceiling are suspended.
C2_Bounded ==
    /\ 0 <= processing
    /\ processing <= dirlist_max_in_progress
    /\ dirlist_max_in_progress =
         (IF conf.max_conns \div 16 > 1 THEN conf.max_conns \div 16 ELSE 1)
    /\ Cardinality({i \in Reqs : Busy(i)}) <= dirlist_max_in_progress

\* two scans are suspended under a ceiling of 2
C2_Witness ==
    /\ dirlist_max_in_progress = 2
    /\ processing = 2
    /\ \A i \in Reqs : req[i].rc = "WAIT"

\* what C3 says of one arriving request that misses the cache
C3_Arrival(x, f) ==
    IF x.path = "hit" THEN TRUE
    ELSE IF processing = dirlist_max_in_progress
    THEN /\ x.path = "busy"
         /\ x.rc = "FINISHED"
         /\ x.S.q.http_status = 503
         /\ "Retry-After: 2" \in x.S.q.hdrs
         /\ x.S.p = processing
         /\ x.S.fs = fs
         /\ ~x.S.q.plugin_ctx
         /\ x.S.q.ev = Ev0
         /\ x.S.q.dirOpen = 0
         /\ x.S.q.alloc = {}
    ELSE /\ x.path = (IF "open" \in f THEN "forbidden" ELSE "admitted")
         /\ x.S.q.http_status # 503
         /\ "Retry-After: 2" \notin x.S.q.hdrs

\* C3: a request that misses the cache while the counter equals the ceiling
\* finishes at once with 503 and Retry-After: 2 and changes nothing: the
\* counter, the directory, the request's context, the cache tree.  A request
\* that arrives below the ceiling is admitted.
C3_Busy ==
    /\ \A in \in Accepted : \A f \in Faults({"open"}) :
         C3_Arrival(Arrival(in, f), f)
    /\ done.path = "busy" => /\ done.http_status = 503
                             /\ "Retry-After: 2" \in done.hdrs
                             /\ done.rc = "FINISHED"
                             /\ ~done.plugin_ctx
                             /\ done.ev = Ev0
                             /\ done.alloc = {}
                             /\ Body(done) = <<>>

\* a request was rejected while a scan is suspended at the ceiling
C3_Witness ==
    /\ done.path = "busy"
    /\ done.http_status = 503
    /\ processing = dirlist_max_in_progress
    /\ \E i \in Reqs : req[i].rc = "WAIT"

\* C4: a file is under a final name only after the whole response body was
\* written to it and its descriptor closed: dirlist.html and dirlist.json
\* always hold a complete listing, never a prefix.
C4_Published ==
    /\ fs.html.ex => fs.html.closed /\ fs.html.data = Listing(FALSE)
    /\ fs.json.ex => fs.json.closed /\ fs.json.data = Listing(TRUE)

\* both names are published, and a third listing is being written
C4_Witness ==
    /\ fs.html.ex
    /\ fs.json.ex
    /\ \E t \in TmpIds : fs.tmp[t].open /\ fs.tmp[t].data # <<>>

\* the cache file of a mode is there and not older than max_age
Fresh(json) ==
    /\ conf.cache
    /\ CacheFile([fs |-> fs], json).ex
    /\ CacheFile([fs |-> fs], json).age <= conf.max_age

\* the request was served the cache file and the directory was not read
ServedFromCache(x, json) ==
    /\ x.path = "hit"
    /\ x.rc = "FINISHED"
    /\ Body(x.S.q) = CacheFile([fs |-> fs], json).data
    /\ Body(x.S.q) = Listing(json)
    /\ x.S.q.ev.opendir = 0
    /\ x.S.q.ev.reads = 0
    /\ x.S.p = processing

\* C5 as stated: whenever the cache file of the mode is fresh, a request is
\* served its bytes and does not read the directory.
C5_AsStated ==
    \A in \in Accepted : \A f \in Faults({"attach"}) :
        Fresh(in.json) => ServedFromCache(Arrival(in, f), in.json)

\* C5, amended: whenever the cache file of the mode is fresh and is attached
\* to the response successfully, the request is served its bytes, which are
\* the bytes of a fresh listing, and does not read the directory; when the
\* file cannot be attached the request is not served from the cache.
C5_RoundTrip ==
    /\ \A in \in Accepted :
         Fresh(in.json) => /\ ServedFromCache(Arrival(in, {}), in.json)
                           /\ Arrival(in, {"attach"}).path # "hit"
    /\ done.path = "hit" => /\ Body(done) = Listing(done.json)
                            /\ done.ev.opendir = 0
                            /\ done.ev.reads = 0

\* a JSON request was served dirlist.json
C5_Witness ==
    /\ done.path = "hit"
    /\ done.json
    /\ Fresh(TRUE)
    /\ Body(done) = fs.json.data
    /\ Len(Body(done)) > 2

\* C6: whatever step of a cache write fails, the response is what it is
\* without a cache (status, content and order of the body), the temp file is
\* unlinked, nothing is published, and the request does not try again.
C6_Unaffected ==
    /\ \A i \in Reqs :
         Busy(i) => /\ IsPrefix(Body(req[i]) \o req[i].h.buf, Listing(req[i].json))
                    /\ req[i].ev.mk <= 1
                    /\ req[i].ev.ren = 0
                    /\ req[i].ev.unl = (IF req[i].ev.mk = 1 /\ req[i].h.jfn = 0
                                        THEN 1 ELSE 0)
    /\ done.path = "admitted" /\ done.rc = "FINISHED" =>
         /\ Body(done) = Listing(done.json)
         /\ done.http_status = (IF done.json \/ ~conf.sort THEN 200 ELSE 0)
         /\ done.ev.mk <= 1
         /\ done.ev.ren + done.ev.unl = done.ev.mk
    /\ \A t \in TmpIds :
         fs.tmp[t].ex \/ fs.tmp[t].open =>
           /\ fs.tmp[t].ex /\ fs.tmp[t].open
           /\ \E i \in Reqs : Busy(i) /\ req[i].h.jfn = t /\ req[i].h.jfd = t

\* a response is complete although its cache write failed
C6_Witness ==
    /\ done.path = "admitted"
    /\ done.rc = "FINISHED"
    /\ done.ev.mk = 1
    /\ done.ev.unl = 1
    /\ done.ev.ren = 0
    /\ Len(Body(done)) > 2

\* what C7 says of the reset of one suspended request: R is the state after
\* mod_dirlisting_reset
C7_Reset(i, R) ==
    /\ ~R.q.plugin_ctx
    /\ R.q.dirOpen = 0
    /\ R.q.alloc = {}
    /\ R.q.h = Hctx0
    /\ R.p = processing - 1
    /\ R.fs.html = fs.html
    /\ R.fs.json = fs.json
    /\ R.q.ev.ren = 0
    /\ \A t \in TmpIds :
         R.fs.tmp[t] = (IF req[i].h.jfn = t THEN NoTmp ELSE fs.tmp[t])

\* C7: the reset of a request whose scan is suspended closes the directory,
\* frees both stores and the streaming buffer, closes and unlinks the temp
\* file of a streaming cache write, and renames nothing.
C7_Teardown ==
    /\ \A i \in Reqs : Busy(i) => C7_Reset(i, mod_dirlisting_reset(St(i)))
    /\ done.rc = "RESET" => /\ done.dirOpen = 0
                            /\ done.alloc = {}
                            /\ done.ev.opendir = 1
                            /\ done.ev.closedir = 1
                            /\ done.ev.ren = 0
                            /\ done.ev.unl = done.ev.mk

\* a request was reset while it was writing a cache file
C7_Witness ==
    /\ done.rc = "RESET"
    /\ done.ev.mk = 1
    /\ done.ev.unl = 1
    /\ done.ev.closedir = 1
    /\ done.ev.waits >= 1

\* a further reset of the state R changes nothing
C8_Again(R) == mod_dirlisting_reset(R) = R

\* C8: reset is idempotent.  After a request completed or was reset, a
\* further reset changes nothing: the counter, the resources, the request.
C8_Idempotent ==
    /\ \A i \in Reqs : C8_Again(mod_dirlisting_reset(St(i)))
    /\ \A i \in Reqs : ~req[i].plugin_ctx => C8_Again(St(i))
    /\ done.rc # "none" =>
         C8_Again([p |-> processing, q |-> done, fs |-> fs])

\* a request completed (and was reset by the handler) while another one
\* holds a slot
C8_Witness ==
    /\ done.path = "admitted"
    /\ done.rc = "FINISHED"
    /\ done.ev.dec = 1
    /\ processing = 1

\* the request of slot i completed
Completed(i) ==
    /\ ~Busy(i)
    /\ done.path = "admitted"
    /\ done.rc = "FINISHED"
    /\ done.resp_body_finished
    /\ ~done.plugin_ctx

\* C9: when the job queue is served and the transport takes what is queued,
\* every admitted request completes: the response body is finished, the
\* context and the slot are released.  Each yield of the scanner puts the
\* connection in the job queue.
C9_Live ==
    /\ \A i \in Reqs : (req[i].rc = "WAIT") ~> Completed(i)
    /\ [][\A i \in Reqs :
            req'[i].ev.waits > req[i].ev.waits => req'[i].sched]_vars

\* a request completed after two yields of the scanner
C9_Witness ==
    /\ done.path = "admitted"
    /\ done.rc = "FINISHED"
    /\ done.resp_body_finished
    /\ done.ev.waits = 2

\* C10 as stated: a scan of more than DIRLIST_BATCH entries yields
\* ceil(entries / DIRLIST_BATCH) times before it is done.
C10_AsStated ==
    done.path = "admitted" /\ done.rc = "FINISHED" /\ dir.n > DIRLIST_BATCH =>
        done.ev.waits = (dir.n + DIRLIST_BATCH - 1) \div DIRLIST_BATCH

\* C10, amended: a scan yields floor(entries / DIRLIST_BATCH) times before it
\* is done, and reads every entry once.
C10_Yields ==
    done.path = "admitted" /\ done.rc = "FINISHED" =>
        /\ done.ev.waits = dir.n \div DIRLIST_BATCH
        /\ done.ev.reads = dir.n
        /\ done.ev.fin = 1

\* a scan of 33 entries is done after one yield
C10_Witness ==
    /\ done.path = "admitted"
    /\ done.rc = "FINISHED"
    /\ dir.n = 33
    /\ done.ev.waits = 1

\* the names of the visible entries of one kind among the first pos entries
\* of the stream, in the order of the stream
ScannedOf(pos, kind) ==
    LET v == SelectSeq(Visible(pos), LAMBDA i : EntKind(i) = kind)
    IN [k \in 1..Len(v) |-> EntName(v[k])]

\* C11: the response body depends on the directory and the configuration
\* only.  Whatever the batches, yields, flushes and deferrals, a suspended
\* request holds every visible entry read so far once and in the order of
\* the stream (in the two stores, or in the body and the buffer), and a
\* completed response, scanned or served from the cache, is the listing a
\* single pass over the directory gives.
C11_SameBody ==
    /\ \A i \in Reqs :
         Busy(i) =>
           IF req[i].h.jb \/ req[i].h.hb
           THEN Body(req[i]) \o req[i].h.buf =
                    SubSeq(Listing(req[i].json), 1,
                           1 + Len(Visible(req[i].h.pos)))
           ELSE /\ req[i].h.dirs = ScannedOf(req[i].h.pos, "dir")
                /\ req[i].h.files = ScannedOf(req[i].h.pos, "file")
                /\ Body(req[i]) = <<>>
    /\ done.rc = "FINISHED" /\ done.path \in {"admitted", "hit"} =>
         /\ Body(done) = ListingOf(dir.n, conf.sort, done.json)
         /\ done.resp_body_finished

\* a streamed response is complete after two yields, a flush in between and
\* a part of the body already sent
C11_Witness ==
    /\ done.path = "admitted"
    /\ done.rc = "FINISHED"
    /\ done.ev.waits = 2
    /\ done.sent # <<>>
    /\ done.write_queue # <<>>
    /\ conf.bufmin
    /\ Body(done) = Listing(done.json)

\* the rows and elements of a body
Rows(body) == SelectSeq(body, LAMBDA t : t \notin {TokHeader, TokFooter,
                                                   TokOpen, TokClose})

\* C12: when a scan ends because readdir() failed before the end of the
\* stream, after some entries were read, the entries collected are discarded: the request does not
\* finish as a normal response, no entry is rendered into the body, and
\* nothing is written to the cache.
C12_AsStated ==
    done.ev.rderr > 0 /\ done.ev.reads > 0 =>
        /\ done.rc # "FINISHED"
        /\ ~done.resp_body_finished
        /\ Rows(Body(done)) = <<>>
        /\ done.ev.ren = 0

\* C13: when the rows of a buffered listing cannot be written to temporary
\* storage, the request does not finish as a normal response (the connection
\* layer gets an error), and the truncated body is not written to the cache.
C13_AsStated ==
    done.ev.spillerr > 0 =>
        /\ done.rc = "ERROR"
        /\ ~done.resp_body_finished
        /\ done.ev.ren = 0

\* A streamed request that ran to its end with a cache: the temp file was made
\* at its start, and the response went out chunked when the connection
\* layer sent its headers, which is after the start
StreamedChunked ==
    /\ done.path = "admitted"
    /\ done.rc = "FINISHED"
    /\ done.ev.mk > 0
    /\ done.resp_send_chunked

\* C14, as stated: a streamed request (JSON or unsorted HTML) with a tee whose
\* response became chunked closes and unlinks its temp file and publishes no
\* cache file.
C14_AsStated ==
    StreamedChunked /\ (done.json \/ ~conf.sort) =>
        /\ done.ev.ren = 0
        /\ done.ev.unl > 0

\* C14, amended: the test of chunked encoding is made where the queue of the
\* response is copied to the temp file, which is for the header and the
\* footer of streamed HTML.  A streamed HTML request whose response became
\* chunked closes and unlinks its temp file when it adds the footer, leaves
\* no temp file and publishes nothing.  A streamed JSON request is not
\* affected: what it publishes is the body it produced, and it publishes
\* unless a call of the cache write failed (then it unlinks).
C14_Chunked ==
    /\ StreamedChunked /\ ~done.json /\ ~conf.sort =>
           /\ done.ev.ren = 0
           /\ done.ev.unl = 1
           /\ done.ev.cl = 1
           /\ \A t \in TmpIds : fs.tmp[t] = NoTmp
    /\ StreamedChunked /\ done.json =>
           /\ done.ev.ren + done.ev.unl = 1
           /\ done.ev.ren = 1 => fs.json.data = Body(done) /\ fs.json.age = 0
           /\ \A t \in TmpIds : fs.tmp[t] = NoTmp

\* a streamed HTML listing of two batches ran to its end, chunked, with the
\* header and all rows in its temp file, and dropped the temp file
C14_Witness ==
    /\ StreamedChunked /\ ~done.json /\ ~conf.sort
    /\ done.ev.waits > 0
    /\ done.ev.wr > 0
    /\ done.ev.unl = 1
    /\ done.ev.ren = 0
    /\ Body(done) = Listing(FALSE)

\* C15: a streamed request that holds a temp file has, whenever its handler
\* has returned, the body it produced so far in that file: header, then each
\* flushed buffer, in order, each once, nothing else.  When its last
\* invocation has renamed the file, the final name holds the whole body,
\* footer or closing bracket included.
C15_Tee ==
    /\ \A i \in Reqs :
          Busy(i) /\ req[i].plugin_ctx /\ req[i].h.jfn # 0 =>
              /\ req[i].h.jb \/ req[i].h.hb
              /\ fs.tmp[req[i].h.jfn].open
              /\ fs.tmp[req[i].h.jfn].data = Body(req[i])
    /\ done.path = "admitted" /\ done.rc = "FINISHED"
         /\ (done.json \/ ~conf.sort) /\ done.ev.ren = 1 =>
              CacheFile([fs |-> fs], done.json).data = Body(done)

\* a streamed HTML listing is suspended: header and rows of the first batch
\* went to the client and are in the temp file
C15_Witness ==
    \E i \in Reqs :
        /\ req[i].rc = "WAIT"
        /\ req[i].h.hb
        /\ req[i].h.jfn # 0
        /\ req[i].sent # <<>>
        /\ Len(fs.tmp[req[i].h.jfn].data) > 1
        /\ req[i].ev.wr = 2

\* C16: the cache file of the request's mode is served exactly when it is
\* there and st_mtime + max_age >= log_epoch_secs, the file whose age is
\* max_age included; when it is missing or older, the request goes on to the
\* scan path (admission, then opendir), whatever its mode.
C16_Fresh ==
    /\ \A in \in Accepted :
          IF /\ conf.cache
             /\ CacheFile([fs |-> fs], in.json).ex
             /\ CacheFile([fs |-> fs], in.json).age <= conf.max_age
          THEN /\ Arrival(in, {}).path = "hit"
               /\ Arrival(in, {}).rc = "FINISHED"
          ELSE \A f \in Faults({"open"}) :
                  /\ Arrival(in, f).path \in {"admitted", "busy", "forbidden"}
                  /\ Arrival(in, f).path = "busy" <=>
                         processing = dirlist_max_in_progress
                  /\ Arrival(in, f).path = "admitted" =>
                         Arrival(in, f).S.q.ev.opendir = 1
    /\ done.path = "hit" =>
          /\ CacheFile([fs |-> fs], done.json).ex
          /\ CacheFile([fs |-> fs], done.json).age <= conf.max_age

\* a request was served a cache file that is exactly max_age seconds old
C16_Witness ==
    /\ done.path = "hit"
    /\ done.rc = "FINISHED"
    /\ conf.max_age > 0
    /\ CacheFile([fs |-> fs], done.json).age = conf.max_age
    /\ Body(done) = Listing(done.json)

\* the cache file of a mode is there and older than max_age
Stale(json) ==
    /\ conf.cache
    /\ CacheFile([fs |-> fs], json).ex
    /\ CacheFile([fs |-> fs], json).age > conf.max_age

\* C17, as stated: a request that found the cache file older than max_age
\* and was admitted scans the directory, and when it has completed the cache
\* file is rewritten: the final name holds the rendering of this request.
C17_AsStated ==
    done.stale /\ done.rc = "FINISHED" /\ done.path = "admitted" =>
        /\ done.ev.opendir = 1
        /\ done.ev.ren = 1
        /\ CacheFile([fs |-> fs], done.json).data = Body(done)
        /\ CacheFile([fs |-> fs], done.json).age = 0

\* C17, amended: a request that found the cache file older than max_age is
\* never served from it; it is rejected when the counter is at the ceiling,
\* fails when the directory cannot be opened, and is admitted otherwise.
\* Admitted and completed, it has read the whole directory and its body is
\* the fresh listing.  It rewrites the cache file at most once: then the
\* final name holds its body, age 0.  It does not rewrite when a call of the
\* cache write failed or when it streamed HTML and the response had become
\* chunked: then its temp file, if it made one, is unlinked and the old file
\* stays under the final name.  A listing of one batch with no failure
\* always rewrites.
C17_Expiry ==
    /\ \A in \in Accepted : Stale(in.json) =>
          /\ \A f \in Faults(CacheFaults \cup {"open"}) :
                /\ Arrival(in, f).path \in {"admitted", "busy", "forbidden"}
                /\ Arrival(in, f).path = "busy" <=>
                       processing = dirlist_max_in_progress
                /\ Arrival(in, f).path = "forbidden" <=>
                       processing # dirlist_max_in_progress /\ "open" \in f
          /\ processing # dirlist_max_in_progress /\ dir.n < DIRLIST_BATCH =>
                /\ Arrival(in, {}).rc = "FINISHED"
                /\ Arrival(in, {}).S.q.ev.ren = 1
                /\ CacheFile(Arrival(in, {}).S, in.json).data = Listing(in.json)
                /\ CacheFile(Arrival(in, {}).S, in.json).age = 0
    /\ done.stale /\ done.rc = "FINISHED" /\ done.path = "admitted" =>
          /\ done.ev.opendir = 1
          /\ done.ev.reads = dir.n
          /\ Body(done) = Listing(done.json)
          /\ done.ev.ren <= 1
          /\ done.ev.ren = 1 =>
                /\ CacheFile([fs |-> fs], done.json).data = Body(done)
                /\ CacheFile([fs |-> fs], done.json).age = 0
          /\ done.ev.ren = 0 =>
                /\ done.ev.mk = done.ev.unl
                /\ CacheFile([fs |-> fs], done.json).age > conf.max_age
          /\ ~done.json /\ ~conf.sort /\ done.resp_send_chunked
                /\ done.ev.mk > 0 => done.ev.ren = 0

\* a request found the cache file expired, scanned the directory in two
\* batches and replaced the file
C17_Witness ==
    /\ done.stale
    /\ done.path = "admitted"
    /\ done.rc = "FINISHED"
    /\ done.ev.waits > 0
    /\ done.ev.reads = dir.n
    /\ done.ev.ren = 1
    /\ CacheFile([fs |-> fs], done.json).data = Listing(done.json)
    /\ CacheFile([fs |-> fs], done.json).age = 0

\* the start handler on a request in, with the counter at c
ArrivalAt(c, in) ==
    mod_dirlisting_subrequest_start(
        [p |-> c, q |-> [Req0 EXCEPT !.h2 = in.h2], fs |-> fs], in, {})

\* what a request served from the cache has done: nothing of the scan path
Untouched(q) ==
    /\ ~q.plugin_ctx
    /\ q.h = Hctx0
    /\ q.alloc = {}
    /\ q.dirOpen = 0
    /\ q.ev.opendir = 0 /\ q.ev.reads = 0
    /\ q.ev.inc = 0 /\ q.ev.dec = 0
    /\ q.ev.mk = 0 /\ q.ev.wr = 0 /\ q.ev.ren = 0 /\ q.ev.unl = 0

\* C18: a request that arrives while the cache file of its mode is fresh is
\* finished by the start handler with the cache file as its body and status
\* 200; no context was made, the directory was not opened, no temp file was
\* made and the cache tree is as it was; the counter is as it was and has no
\* influence on the outcome: at every value of the counter, the ceiling
\* included, the request ends the same way.
C18_Hit ==
    /\ \A in \in Accepted : Fresh(in.json) =>
          \A c \in 0..dirlist_max_in_progress :
              /\ ArrivalAt(c, in).path = "hit"
              /\ ArrivalAt(c, in).rc = "FINISHED"
              /\ ArrivalAt(c, in).S.p = c
              /\ ArrivalAt(c, in).S.fs = fs
              /\ ArrivalAt(c, in).S.q = ArrivalAt(0, in).S.q
              /\ StatusSent(ArrivalAt(c, in).S.q) = 200
              /\ Untouched(ArrivalAt(c, in).S.q)
              /\ Body(ArrivalAt(c, in).S.q) = CacheFile([fs |-> fs], in.json).data
    /\ done.path = "hit" =>
          /\ done.rc = "FINISHED"
          /\ StatusSent(done) = 200
          /\ done.resp_body_finished
          /\ Untouched(done)
          /\ Body(done) = CacheFile([fs |-> fs], done.json).data
          /\ processing = Cardinality({i \in Reqs : req[i].plugin_ctx})

\* a request was served from the cache while the counter was at the ceiling:
\* a scan of the same directory is suspended
C18_Witness ==
    /\ done.path = "hit"
    /\ StatusSent(done) = 200
    /\ Body(done) = Listing(done.json)
    /\ processing = dirlist_max_in_progress
    /\ \E i \in Reqs : req[i].rc = "WAIT" /\ req[i].plugin_ctx

\* the requests in flight that hold a temp file
Writers == {i \in Reqs : Busy(i) /\ req[i].h.jfn # 0}

\* every writer has a temp file of its own, which holds what this writer
\* produced and nothing else; every temp file has a writer
OwnTemp ==
    /\ \A i \in Writers :
          /\ fs.tmp[req[i].h.jfn].ex
          /\ fs.tmp[req[i].h.jfn].open
          /\ fs.tmp[req[i].h.jfn].json = req[i].json
          /\ fs.tmp[req[i].h.jfn].data = Body(req[i])
          /\ \A j \in Writers : j # i => req[j].h.jfn # req[i].h.jfn
    /\ \A t \in TmpIds :
          fs.tmp[t].ex \/ fs.tmp[t].open => \E i \in Writers : req[i].h.jfn = t

\* a step leaves the temp file of every request it does not run alone; when
\* it renames, the final name of the mode of the request it ran holds the
\* whole body of that request, from a temp file no request in flight holds,
\* and the other final name is as it was; when it does not rename, both
\* final names are as they were
OwnStep ==
    /\ \A j \in Writers :
          req'[j] = req[j] => fs'.tmp[req[j].h.jfn] = fs.tmp[req[j].h.jfn]
    /\ IF done'.ev.ren > 0
       THEN /\ done'.ev.ren = 1
            /\ CacheFile([fs |-> fs'], done'.json).ex
            /\ CacheFile([fs |-> fs'], done'.json).closed
            /\ CacheFile([fs |-> fs'], done'.json).data = Body(done')
            /\ Body(done') = Listing(done'.json)
            /\ \A j \in Reqs :
                  req'[j].rc # "none" =>
                      req'[j].h.jfn # CacheFile([fs |-> fs'], done'.json).src
            /\ CacheFile([fs |-> fs'], ~done'.json)
                  = CacheFile([fs |-> fs], ~done'.json)
       ELSE /\ fs'.html = fs.html
            /\ fs'.json = fs.json

\* C19: requests for the same directory in flight at once with a cache each
\* write to a temp file of their own; no step of one request writes to,
\* closes, renames or unlinks the temp file of another; and every rename
\* puts the complete body of the request that renames under the final
\* name, where it stays until the next rename: the final name always holds
\* the output of the request that renamed last.
C19_Race == []OwnTemp /\ [][OwnStep]_vars

\* two requests of one mode were writing at once: one has renamed its temp
\* file to the final name, the other is suspended with rows in its own
C19_Witness ==
    \E i \in Writers :
        /\ req[i].rc = "WAIT"
        /\ fs.tmp[req[i].h.jfn].data # <<>>
        /\ CacheFile([fs |-> fs], req[i].json).ex
        /\ CacheFile([fs |-> fs], req[i].json).src # req[i].h.jfn
        /\ CacheFile([fs |-> fs], req[i].json).data = Listing(req[i].json)

\* what a request whose directory could not be opened is left with
Refused(q) ==
    /\ q.http_status = 403
    /\ ~q.plugin_ctx /\ ~q.handler_module
    /\ q.h = Hctx0
    /\ q.alloc = {}
    /\ q.ev.free = 1
    /\ q.dirOpen = 0 /\ q.ev.opendir = 0 /\ q.ev.reads = 0
    /\ q.ev.inc = 0 /\ q.ev.dec = 0
    /\ q.ev.mk = 0 /\ q.ev.wr = 0 /\ q.ev.ren = 0
    /\ Body(q) = <<>>
    /\ ~q.resp_body_started /\ ~q.resp_body_finished
    /\ ~q.sched

\* C20: a request that is not served from the cache and not rejected at the
\* ceiling, and whose directory cannot be opened, is finished by the start
\* handler (HANDLER_FINISHED, never resumed) with status 403: its context is
\* freed and was not attached to the request, the counter and the cache tree
\* are as they were, the response has no body and no temp file was made.
C20_Forbidden ==
    /\ \A in \in Accepted :
       \A f \in Faults(CacheFaults \cup {"open", "attach"}) :
          "open" \in f /\ Arrival(in, f).path \notin {"hit", "busy"} =>
              /\ Arrival(in, f).path = "forbidden"
              /\ Arrival(in, f).rc = "FINISHED"
              /\ Refused(Arrival(in, f).S.q)
              /\ Arrival(in, f).S.p = processing
              /\ Arrival(in, f).S.fs = fs
    /\ done.path = "forbidden" =>
          /\ done.rc = "FINISHED"
          /\ Refused(done)
          /\ processing = Cardinality({i \in Reqs : req[i].plugin_ctx})
          /\ \A t \in TmpIds :
                fs.tmp[t].ex => \E i \in Reqs : Busy(i) /\ req[i].h.jfn = t

\* a request failed with 403 while another request's scan was suspended,
\* which it left alone
C20_Witness ==
    /\ done.path = "forbidden"
    /\ done.http_status = 403
    /\ done.ev.free = 1
    /\ processing = 1
    /\ \E i \in Reqs : req[i].rc = "WAIT" /\ req[i].plugin_ctx

\* the name a row or an element shows
TokName(t) == t % 1000

\* the names a body lists
Listed(body) == {TokName(Rows(body)[k]) : k \in 1..Len(Rows(body))}

\* the kinds of entry that are not listed according to the statement: '.',
\* '..', dot-files if hidden, the README and HEADER files if hidden, names
\* an exclude pattern matches, names that are too long
Omitted(kind) ==
    \/ kind \in {"dot", "dotdot", "toolong"}
    \/ kind = "hidden" /\ conf.hide_dot_files
    \/ kind = "readme" /\ conf.hide_readme_file /\ conf.show_readme
    \/ kind = "header" /\ conf.hide_header_file /\ conf.show_header
    \/ kind = "excluded" /\ conf.excludes

\* C21, as stated: the names a complete response lists are the names of the
\* directory's entries but for the omitted kinds, each once.
C21_AsStated ==
    done.path = "admitted" /\ done.rc = "FINISHED" =>
        /\ Listed(Body(done)) =
               {DirEnt(i).name : i \in {j \in 1..dir.n : ~Omitted(DirEnt(j).kind)}}
        /\ Len(Rows(Body(done))) = Cardinality(Listed(Body(done)))

\* C21, amended: the names a complete response lists are the names of the
\* entries the directory stream delivered but for the omitted kinds and for
\* the entries whose stat() failed, each once; and while a request is
\* suspended, what it has rendered or stored are those of the entries read
\* so far.
C21_Listed ==
    /\ done.path = "admitted" /\ done.rc = "FINISHED" =>
          /\ done.ev.reads = dir.n
          /\ Listed(Body(done)) =
                 {DirEnt(i).name :
                     i \in {j \in 1..dir.n : /\ ~Omitted(DirEnt(j).kind)
                                             /\ DirEnt(j).kind # "gone"}}
          /\ Len(Rows(Body(done))) = Cardinality(Listed(Body(done)))
    /\ \A i \in Reqs : Busy(i) =>
          Listed(Body(req[i]) \o req[i].h.buf)
              \cup {req[i].h.dirs[k] : k \in 1..Len(req[i].h.dirs)}
              \cup {req[i].h.files[k] : k \in 1..Len(req[i].h.files)}
            = {DirEnt(k).name :
                  k \in {j \in 1..req[i].h.pos : /\ ~Omitted(DirEnt(j).kind)
                                                 /\ DirEnt(j).kind # "gone"}}

\* a listing of two batches is complete with dot-files and the README shown,
\* and entries whose stat() failed left out
C21_Witness ==
    /\ done.path = "admitted" /\ done.rc = "FINISHED"
    /\ dir.mixed
    /\ ~conf.hide_dot_files
    /\ done.ev.waits > 0
    /\ DirEnt(35).name \in Listed(Body(done))
    /\ DirEnt(9).name \in Listed(Body(done))
    /\ DirEnt(11).name \notin Listed(Body(done))

\* the elements of a sequence
Range(s) == {s[k] : k \in 1..Len(s)}

\* the names of the entries of a kind the directory stream delivers
StreamNames(kind) == {DirEnt(i).name : i \in {j \in 1..dir.n : DirEnt(j).kind = kind}}

\* C22: the rows of a sorted page are the directories, names ascending, and
\* then the files, names ascending, whatever the order in which the stream
\* delivered them; and the sort applied to the stores of a suspended
\* request, whatever their length, gives the same names in ascending order.
C22_Sorted ==
    /\ done.path = "admitted" /\ done.rc = "FINISHED" /\ ~done.json =>
          /\ Rows(Body(done)) = Ascending(StreamNames("dir"))
                                   \o Ascending(StreamNames("file"))
          /\ done.ev.sorts = 2
    /\ \A i \in Reqs : Busy(i) /\ ~req[i].json =>
          /\ http_dirls_sort(req[i].h.dirs) = Ascending(Range(req[i].h.dirs))
          /\ http_dirls_sort(req[i].h.files) = Ascending(Range(req[i].h.files))
          /\ Len(req[i].h.files) = Cardinality(Range(req[i].h.files))

\* a page of two directories and four files is complete, and the stream had
\* delivered the names of each group in descending order
C22_Witness ==
    /\ done.path = "admitted" /\ done.rc = "FINISHED" /\ ~done.json
    /\ dir.n = 12
    /\ dir.order[5] > dir.order[10]
    /\ dir.order[3] > dir.order[6] /\ dir.order[6] > dir.order[8]
    /\ dir.order[8] > dir.order[11]
    /\ Len(Rows(Body(done))) = 6
    /\ done.ev.sorts = 2

\* the stores that hold an entry at the end of the scan
StoresUsed ==
    (IF NamesOf(dir.n, "dir") # {} THEN 1 ELSE 0)
    + (IF NamesOf(dir.n, "file") # {} THEN 1 ELSE 0)

\* C23: a buffered request that is suspended has produced no body, has
\* sorted nothing and has written nothing to the cache: its stores hold the
\* entries read so far in stream order.  When it has completed, the scanner
\* had finished once, each store that holds an entry was sorted once, the
\* rows are those of all batches in sorted order, and what it wrote to the
\* cache, in one piece, is header, rows and footer.  A streamed request
\* stores no entry and sorts nothing.
C23_Sequential ==
    /\ \A i \in Reqs : Busy(i) /\ ~req[i].json /\ conf.sort =>
          /\ Body(req[i]) = <<>>
          /\ ~req[i].resp_body_started
          /\ req[i].ev.fin = 0
          /\ req[i].ev.sorts = 0
          /\ req[i].ev.mk = 0 /\ req[i].ev.wr = 0
          /\ req[i].h.dirs = ScannedOf(req[i].h.pos, "dir")
          /\ req[i].h.files = ScannedOf(req[i].h.pos, "file")
    /\ done.path = "admitted" /\ done.rc = "FINISHED"
         /\ ~done.json /\ conf.sort =>
          /\ done.ev.fin = 1
          /\ done.ev.reads = dir.n
          /\ done.ev.sorts = StoresUsed
          /\ Body(done) = <<TokHeader>> \o Ascending(NamesOf(dir.n, "dir"))
                             \o Ascending(NamesOf(dir.n, "file"))
                             \o <<TokFooter>>
          /\ done.ev.mk <= 1 /\ done.ev.wr <= done.ev.mk
          /\ done.ev.ren = 1 => /\ done.ev.wr = 1
                                /\ fs.html.data = Body(done)
    /\ \A i \in Reqs : Busy(i) /\ (req[i].json \/ ~conf.sort) =>
          /\ req[i].h.dirs = <<>> /\ req[i].h.files = <<>>
          /\ req[i].ev.sorts = 0
          /\ req[i].alloc \cap {"dirs", "files"} = {}
    /\ done.json \/ ~conf.sort => done.ev.sorts = 0

\* a buffered request of two batches has completed: two sorts, and the whole
\* page went to the cache in one write
C23_Witness ==
    /\ done.path = "admitted" /\ done.rc = "FINISHED"
    /\ ~done.json /\ conf.sort
    /\ done.ev.waits = 1
    /\ done.ev.sorts = 2
    /\ done.ev.wr = 1 /\ done.ev.ren = 1
    /\ fs.html.data = Body(done)

\* the entries read by the calls of the scanner of request q that have
\* returned HANDLER_WAIT_FOR_EVENT
Yielded(q) == DIRLIST_BATCH * q.ev.waits

\* C24: every call of the scanner that yields has read DIRLIST_BATCH entries
\* of the stream, kept or not, and the call that finishes has read fewer:
\* readdir() returned NULL in it.  So a suspended scan stands at a multiple
\* of DIRLIST_BATCH, one yield for each batch, and a directory whose length
\* is a multiple of DIRLIST_BATCH takes a last call that reads nothing.
C24_Batch ==
    /\ \A i \in Reqs : Busy(i) /\ req[i].h.dp =>
          /\ req[i].ev.fin = 0
          /\ req[i].ev.reads = Yielded(req[i])
          /\ req[i].h.pos = req[i].ev.reads
          /\ req[i].h.pos <= dir.n
    /\ done.path = "admitted" /\ done.rc = "FINISHED" =>
          /\ done.ev.fin = 1
          /\ done.ev.reads = dir.n
          /\ done.ev.reads - Yielded(done) \in 0..(DIRLIST_BATCH - 1)

\* the scan of a directory of 64 entries, some of them filtered out or gone,
\* has yielded twice and finished with a call that read nothing
C24_Witness ==
    /\ done.path = "admitted" /\ done.rc = "FINISHED"
    /\ dir.n = 2 * DIRLIST_BATCH
    /\ done.ev.waits = 2
    /\ done.ev.reads = dir.n
    /\ Len(Rows(Body(done))) < dir.n

\* C25: a request in flight holds its directory open, opened once and not
\* yet closed.  A request that has ended holds no directory, and closedir()
\* ran as often as opendir() succeeded, at most once: in the scanner when
\* the scan finished (the teardown that follows finds p->dp cleared), in the
\* teardown when the request was reset during the scan.
C25_ClosedOnce ==
    /\ \A i \in Reqs : Busy(i) =>
          /\ req[i].h.dp /\ req[i].dirOpen = 1
          /\ req[i].ev.opendir = 1 /\ req[i].ev.closedir = 0
          /\ req[i].ev.fin = 0
    /\ \A i \in Reqs : ~Busy(i) => req[i].dirOpen = 0
    /\ done.rc # "none" =>
          /\ done.dirOpen = 0
          /\ ~done.h.dp
          /\ done.ev.opendir <= 1
          /\ done.ev.closedir = done.ev.opendir
          /\ done.ev.opendir = 1 <=> done.path = "admitted"
          /\ done.ev.fin = 1 <=> done.path = "admitted" /\ done.rc = "FINISHED"
          /\ done.path = "admitted" => done.rc \in {"FINISHED", "RESET"}
          /\ done.path = "admitted" => done.ev.free = 1

\* a scan of two batches has finished: the scanner closed the directory and
\* the teardown that released the context closed nothing
C25_Witness ==
    /\ done.path = "admitted" /\ done.rc = "FINISHED"
    /\ done.ev.waits = 1 /\ done.ev.fin = 1
    /\ done.ev.opendir = 1 /\ done.ev.closedir = 1
    /\ done.ev.free = 1
    /\ done.dirOpen = 0

\* the write queue of q holds more than the low-water mark and the socket is
\* not writable
Congested(q) ==
    /\ SeqBytes(q.write_queue) > 65536 - 4096
    /\ ~q.is_writable

\* the resume call of request i changes nothing and yields, whatever the
\* host would answer
Deferred(i) ==
    \A f \in Faults(CacheFaults \cup dir.faults) :
        mod_dirlisting_subrequest([St(i) EXCEPT !.q.sched = FALSE], f)
            = [S |-> [St(i) EXCEPT !.q.sched = FALSE], rc |-> "WAIT"]

\* C26 as stated: a resume of a request whose write queue is above the
\* low-water mark while the socket is not writable changes nothing.
C26_AsStated ==
    \A i \in Reqs : Busy(i) /\ Congested(req[i]) => Deferred(i)

\* C26: with FDEVENT_STREAM_RESPONSE_BUFMIN set, a resume of a request
\* whose write queue is above the low-water mark while the socket is not
\* writable yields and changes nothing: no entry is read, nothing is added
\* to the response or to the temp file, and the position in the directory,
\* the stores and the counter of requests in progress stay as they are.
C26_Deferred ==
    \A i \in Reqs :
        Busy(i) /\ conf.bufmin /\ Congested(req[i]) => Deferred(i)

\* a congested request was resumed and has yielded: it is not scheduled
\* again, and its scan stands where the second batch left it
C26_Witness ==
    \E i \in Reqs :
        /\ Busy(i) /\ conf.bufmin /\ Congested(req[i])
        /\ req[i].rc = "WAIT" /\ ~req[i].sched
        /\ req[i].h.pos = 2 * DIRLIST_BATCH
        /\ req[i].ev.waits = 2

\* the requests of a state: those in flight and the one that ended last
Known == {req[i] : i \in Reqs} \cup {done}

\* what holds of a request for which a 103 was sent
Hinted(q) ==
    /\ q.ev.h103 = 1
    /\ q.h2 /\ ~q.json /\ conf.sort
    /\ q.path = "admitted"
    /\ q.ev.waits >= 1

\* a step in which a 103 is sent for request i is its start call, which
\* leaves it in flight with no body written or started
HintStep ==
    \A i \in Reqs :
        req'[i].ev.h103 > req[i].ev.h103 =>
            /\ ~Busy(i)
            /\ req'[i].handler_module
            /\ req'[i].rc \in {"WAIT", "ERROR"}
            /\ ~req'[i].resp_body_started
            /\ Body(req'[i]) = <<>>
            /\ req'[i].ev.waits = 1

\* C27: a 103 is sent at most once for a request, over HTTP/2, for a
\* sorted HTML listing whose start call yielded; it is sent in the start
\* call, before any body is written or started, and in no later call.
C27_EarlyHints ==
    /\ [](\A q \in Known : q.ev.h103 = 0 \/ Hinted(q))
    /\ [][HintStep]_vars

\* a listing for which a 103 was sent has completed in a later call
C27_Witness ==
    /\ done.path = "admitted" /\ done.rc = "FINISHED"
    /\ done.ev.h103 = 1
    /\ done.h2 /\ conf.external
    /\ Body(done) # <<>>

\* C28 as stated: a request carries a Link header only if a 103 was sent
\* for it.
C28_AsStated ==
    \A q \in Known : "Link" \in q.hdrs => conf.external /\ q.ev.h103 = 1

\* C28: the Link headers are on every HTML listing, scanned or served from
\* the cache, when an external stylesheet or script is configured, with or
\* without a 103; they are on no JSON listing, on no listing without
\* external resources, and on no response that is not a listing.
C28_Link ==
    \A q \in Known :
        /\ "Link" \in q.hdrs <=>
               /\ q.path \in {"admitted", "hit"}
               /\ conf.auto_layout /\ conf.external /\ ~q.json
        /\ q.ev.h103 = 1 => "Link" \in q.hdrs

\* an HTML listing over HTTP/1.1, finished within the start call, carries
\* the Link headers
C28_Witness ==
    /\ done.path = "admitted" /\ done.rc = "FINISHED"
    /\ ~done.h2 /\ ~done.json
    /\ done.ev.waits = 0 /\ done.ev.h103 = 0
    /\ "Link" \in done.hdrs

\* the requests that miss one or more of the four conditions of the start
\* handler
NotOurs == {in \in InputFields :
              \/ in.owned \/ ~in.slash
              \/ in.method \notin {"GET", "HEAD"} \/ ~in.enabled}

\* a request as it reaches the start handler while the plugin is in the
\* present state
Arriving(in) == [p |-> processing, q |-> [Req0 EXCEPT !.h2 = in.h2], fs |-> fs]

\* C29: in every state of the plugin, the start handler answers a request
\* without trailing slash, with a method other than GET and HEAD, owned by
\* another handler, or in a scope without directory listing with
\* HANDLER_GO_ON and leaves the request, the counter and the cache files as
\* they were, whatever the host would answer; and a request that was
\* declined is the request that arrived.
C29_Declined ==
    /\ \A in \in NotOurs : \A f \in Faults(CacheFaults \cup {"open"}) :
          mod_dirlisting_subrequest_start(Arriving(in), in, f)
              = [S |-> Arriving(in), rc |-> "GO_ON", path |-> "declined"]
    /\ done.path = "declined" =>
          done = [Req0 EXCEPT !.rc = "GO_ON", !.path = "declined"]

\* a request was declined while another listing is in progress and its temp
\* file exists
C29_Witness ==
    /\ done.path = "declined" /\ done.rc = "GO_ON"
    /\ processing = 1
    /\ \E i \in Reqs : Busy(i) /\ req[i].h.jfn # 0
                        /\ fs.tmp[req[i].h.jfn].ex

\* b is '[', then count objects of which exactly the first has no leading
\* comma, then ']' if closed
JsonShape(b, count, closed) ==
    /\ Len(b) = 1 + count + (IF closed THEN 1 ELSE 0)
    /\ b[1] = TokOpen
    /\ closed => b[Len(b)] = TokClose
    /\ \A k \in 2..(1 + count) :
          b[k] = TokObj(TokName(b[k]), k > 2)

\* the names of the objects of b, in order
JsonNames(b, count) == [k \in 1..count |-> TokName(b[k + 1])]

\* the names the scanner keeps of the first pos entries, in stream order
KeptNames(pos) == [k \in 1..Len(Visible(pos)) |-> EntName(Visible(pos)[k])]

\* C30: a complete JSON body is '[', the objects of the entries kept, in
\* the order of the stream, each but the first led by one comma, and ']';
\* with no entry kept it is '[' ']'.  What a suspended JSON request has
\* produced is a prefix of it: '[' and the objects of the batches read.
C30_JsonArray ==
    /\ done.json /\ done.rc = "FINISHED" /\ done.path \in {"admitted", "hit"} =>
          /\ JsonShape(Body(done), Len(Visible(dir.n)), TRUE)
          /\ JsonNames(Body(done), Len(Visible(dir.n))) = KeptNames(dir.n)
          /\ Visible(dir.n) = <<>> => Body(done) = <<TokOpen, TokClose>>
    /\ \A i \in Reqs : Busy(i) /\ req[i].json =>
          LET b == Body(req[i]) \o req[i].h.buf
              c == Len(Visible(req[i].h.pos))
          IN /\ JsonShape(b, c, FALSE)
             /\ JsonNames(b, c) = KeptNames(req[i].h.pos)
             /\ req[i].h.jcomma # 0 <=> c > 0

\* a JSON listing of three batches has completed
C30_Witness ==
    /\ done.json /\ done.rc = "FINISHED" /\ done.path = "admitted"
    /\ done.ev.waits = 2
    /\ Len(Body(done)) = 2 + Len(Visible(dir.n))
    /\ Body(done)[2] = TokObj(EntName(3), FALSE)
    /\ Body(done)[3] = TokObj(EntName(5), TRUE)

\* C31: an entry is kept exactly when its name is no longer than name_max,
\* and then it is stored with the length of the whole name and the whole
\* name with its terminator is copied; an entry with a longer name leaves
\* nothing behind.
C31_NameMax ==
    call.fn = "http_open_directory" /\ call.pc = "read" =>
        /\ call.kept <=> ~U32Less(call.name_max, U32(call.dsz))
        /\ call.kept => /\ call.namelen = call.dsz
                        /\ ~U32Less(call.name_max, U32(call.namelen))
                        /\ call.copied = call.dsz + 1
        /\ ~call.kept => call.namelen = 0 /\ call.copied = 0

\* a name of 255 bytes was kept whole, and a name of 256 bytes was skipped
\* in a directory whose path leaves room for 255
C31_Witness ==
    /\ call.fn = "http_open_directory" /\ call.pc = "read"
    /\ call.dlen = 3840 /\ call.name_max = U32(255)
    /\ call.dsz = 255 /\ call.kept /\ call.namelen = 255

\* C40 as stated: for every length of the directory path the buffer holds
\* the path and its terminator and every accepted name, and name_max is
\* PATH_MAX - dlen - 1 without wrapping.
C40_AsStated ==
    call.fn = "http_open_directory" /\ call.pc # "entry" =>
        /\ call.dlen < PATH_MAX
        /\ call.name_max = U32(PATH_MAX - call.dlen - 1)
        /\ ~U32Less(call.size, U32(call.dlen + 1))
        /\ ~U32Less(call.size, U32(call.used))

\* the place of the highest group of size that is not zero, 1 if there is
\* none
TopPlace(size) ==
    IF \E k \in 1..Limbs : size[k] # 0
    THEN CHOOSE k \in 1..Limbs : size[k] # 0 /\ \A j \in (k + 1)..Limbs : size[j] = 0
    ELSE 1

\* size is the number n < 2^30
IsSize(size, n) ==
    /\ size[1] = n % 1024
    /\ size[2] = (n \div 1024) % 1024
    /\ size[3] = n \div 1048576
    /\ \A k \in 4..Limbs : size[k] = 0

\* the text for a size below 1024: no whole unit, tenths of 1024 rounded
\* down, 1..99 counted as one tenth
SmallText(n) ==
    [int |-> 0,
     frac |-> IF n = 0 THEN 0 ELSE IF n < 100 THEN 1
              ELSE IF n \div 100 > 9 THEN 9 ELSE n \div 100,
     unit |-> "K"]

\* the text for a size whose highest group is at place k > 1: that group
\* counts whole units, the group below it tenths; 1000..1023 units are
\* written as 0.9 of the next unit
ScaledText(size, k) ==
    IF size[k] > 999
    THEN [int |-> 0, frac |-> 9, unit |-> Units[k]]
    ELSE [int |-> size[k],
          frac |-> IF size[k - 1] \div 100 > 9 THEN 9 ELSE size[k - 1] \div 100,
          unit |-> Units[k - 1]]

\* C32: the text written for a size is an integer part in 0..999, one
\* digit and one of the six units, scaled by powers of 1024; 0 is 0.0K,
\* 1..99 is 0.1K, 1023 is 0.9K, 1024 is 1.0K, 1048575 is 0.9M and
\* 1048576 is 1.0M; the loop ends with u in 0..5.
C32_SizeFmt ==
    call.fn = "http_list_directory_sizefmt" /\ call.pc = "done" =>
        /\ call.out.int \in 0..999
        /\ call.out.frac \in 0..9
        /\ call.u \in 0..5
        /\ call.out.unit = Units[call.u + 1]
        /\ call.out = IF TopPlace(call.arg) = 1 THEN SmallText(call.arg[1])
                      ELSE ScaledText(call.arg, TopPlace(call.arg))
        /\ IsSize(call.arg, 0) => call.out = [int |-> 0, frac |-> 0, unit |-> "K"]
        /\ (\E n \in 1..99 : IsSize(call.arg, n)) =>
               call.out = [int |-> 0, frac |-> 1, unit |-> "K"]
        /\ IsSize(call.arg, 1023) => call.out = [int |-> 0, frac |-> 9, unit |-> "K"]
        /\ IsSize(call.arg, 1024) => call.out = [int |-> 1, frac |-> 0, unit |-> "K"]
        /\ IsSize(call.arg, 1048575) =>
               call.out = [int |-> 0, frac |-> 9, unit |-> "M"]
        /\ IsSize(call.arg, 1048576) =>
               call.out = [int |-> 1, frac |-> 0, unit |-> "M"]

\* 2^63 - 1 was formatted: 7.9E
C32_Witness ==
    /\ call.fn = "http_list_directory_sizefmt" /\ call.pc = "done"
    /\ call.arg = Off(1023, 1023, 1023, 1023, 1023, 1023, 7)
    /\ call.out = [int |-> 7, frac |-> 9, unit |-> "E"]

\* C33: in a scope whose cache has max-age 0 the cache is off: no request
\* is answered from a cache file or finds a stale one, none has a temp file
\* or creates, writes, renames or unlinks one, and the cache directory
\* stays as it was.
C33_ZeroMaxAge ==
    conf.max_age = 0 =>
        /\ ~conf.cache
        /\ fs = Fs0
        /\ \A q \in Known :
              /\ q.path # "hit" /\ ~q.stale
              /\ q.h.jfn = 0
              /\ q.ev.mk = 0 /\ q.ev.wr = 0 /\ q.ev.ren = 0
              /\ q.ev.unl = 0 /\ q.ev.cl = 0

\* with max-age 0 a listing of more than one batch has completed and no
\* file was touched
C33_Witness ==
    /\ conf.max_age = 0
    /\ done.path = "admitted" /\ done.rc = "FINISHED"
    /\ done.ev.waits >= 1
    /\ Body(done) # <<>>
    /\ fs = Fs0

\* the children of the directory: its entries but '.' and '..'
Children == dir.n - 2

Aborted(q) ==
    /\ q.rc # "none"
    /\ q.h.jb \/ q.h.hb
    /\ q.ev.mk = 1 /\ q.h.jfn = 0

\* request i as the step leaves it: in flight, or ended
After(i) == IF req'[i].rc # "none" THEN req'[i] ELSE done'

\* a call made for a request that has given up its cache file writes,
\* closes, unlinks and renames nothing, and leaves the cache tree alone
AbortedStep ==
    \A i \in Reqs :
        Aborted(req[i]) /\ req'[i] # req[i] =>
            /\ After(i).ev.wr = req[i].ev.wr
            /\ After(i).ev.mk = 1
            /\ After(i).ev.cl = 1 /\ After(i).ev.unl = 1
            /\ After(i).ev.ren = 0
            /\ fs' = fs

\* C35: a streamed request closes its temp file once and either renames or
\* unlinks it once, whether it gives the file up (a write fails, or the
\* response goes out chunked) or commits it (the rename succeeds or
\* fails); once it has given it up no later call writes, renames or unlinks,
\* and the teardown after either closes and unlinks nothing more.
C35_AbortFinal ==
    /\ [](\A q \in Known :
            (q.json \/ ~conf.sort) /\ q.path = "admitted" =>
                /\ q.ev.mk <= 1
                /\ q.ev.cl <= q.ev.mk
                /\ q.ev.ren + q.ev.unl <= q.ev.mk
                /\ q.h.jfn = 0 => /\ q.ev.cl = q.ev.mk
                                  /\ q.ev.ren + q.ev.unl = q.ev.mk
                /\ Aborted(q) => q.ev.ren = 0 /\ q.ev.unl = 1)
    /\ [][AbortedStep]_vars

\* a streamed request gave up its cache file in one call and has completed
\* in a later one: one close, one unlink, no rename, teardown done
C35_Witness ==
    /\ done.path = "admitted" /\ done.rc = "FINISHED"
    /\ done.json \/ ~conf.sort
    /\ done.ev.waits >= 1
    /\ done.ev.mk = 1 /\ done.ev.cl = 1 /\ done.ev.unl = 1
    /\ done.ev.ren = 0 /\ done.ev.free = 1
    /\ done.ev.wr >= 1
    /\ ~fs.html.ex /\ ~fs.json.ex

\* the part of a sequence behind its first n elements
Behind(seq, n) == SubSeq(seq, n + 1, Len(seq))

\* the call on slot i in this step ended a streamed HTML listing
Finishing(i) ==
    /\ Busy(i) /\ req[i].h.hb
    /\ req'[i].rc = "none"
    /\ done'.rc = "FINISHED"

\* what the finishing call did to the response and to the temp file
FooterStep ==
    \A i \in Reqs :
        Finishing(i) =>
            LET old == req[i].write_queue
                new == done'.write_queue
                added == Behind(new, Len(old))
            IN /\ done'.sent = req[i].sent
               /\ Len(new) > Len(old)
               /\ SubSeq(new, 1, Len(old)) = old
               /\ new[Len(new)] = TokFooter
               /\ \A k \in 1..(Len(new) - 1) : new[k] # TokFooter
               /\ \A j, k \in 1..Len(new) : j # k => new[j] # new[k]
               /\ req[i].h.jfn # 0 /\ done'.ev.ren = 1 =>
                      /\ CacheFile([fs |-> fs'], FALSE).data
                            = fs.tmp[req[i].h.jfn].data \o added
                      /\ done'.ev.wr <= req[i].ev.wr + 2

\* C36: the call that ends an unsorted HTML listing leaves what the response
\* queue held, sent or not, where it was, appends the rows still buffered and
\* then the footer, which comes last and once; the temp file grows by exactly
\* what the queue grew by in that call (buffered rows, then the footer), so
\* the rows that were queued before are not written a second time.
C36_FooterLast == [][FooterStep]_vars

\* a streamed HTML listing that yielded at least once ended with nothing ever
\* taken from its queue: the rows queued by the earlier calls were unsent
\* when the footer was added, the footer is last, and the cache file holds
\* the body once
C36_Witness ==
    /\ done.rc = "FINISHED" /\ done.path = "admitted"
    /\ ~done.json /\ ~conf.sort
    /\ done.ev.waits >= 1
    /\ ~done.hdr_sent /\ done.sent = <<>>
    /\ Len(done.write_queue) > 2
    /\ done.write_queue[Len(done.write_queue)] = TokFooter
    /\ done.ev.ren = 1
    /\ fs.html.ex /\ fs.html.data = done.write_queue

\* the render mode of a handler_ctx
ModeOf(h) == IF h.jb THEN "json" ELSE IF h.hb THEN "html" ELSE "buffered"

\* the tokens of a JSON array: brackets and elements
IsJsonTok(t) == t \in {TokOpen, TokClose} \/ (t > 1000 /\ t < 3000)

\* the mode of an admitted request and what each mode may hold
ModeState ==
    /\ \A i \in Reqs :
          Busy(i) /\ req[i].plugin_ctx =>
              LET q == req[i] IN
              /\ ~(q.h.jb /\ q.h.hb)
              /\ q.h.jb = q.json
              /\ q.h.hb = (~q.json /\ ~conf.sort)
              /\ ModeOf(q.h) = "buffered" =>
                     /\ q.h.jfd = 0 /\ q.h.jfn = 0
                     /\ q.h.buf = <<>> /\ "buf" \notin q.alloc
                     /\ "jfn" \notin q.alloc
                     /\ Body(q) = <<>>
                     /\ q.ev.mk = 0 /\ q.ev.cl = 0 /\ q.ev.unl = 0
              /\ ModeOf(q.h) # "buffered" =>
                     /\ "buf" \in q.alloc
                     /\ q.h.jfd # 0
                     /\ (q.h.jfn # 0) = (q.h.jfd # 0 - 1)
    /\ \A q \in Known :
          q.json => \A k \in 1..Len(Body(q)) : IsJsonTok(Body(q)[k])

\* a call leaves the mode of a request it does not end as it was
ModeStep ==
    \A i \in Reqs :
        Busy(i) /\ req[i].plugin_ctx /\ req'[i].plugin_ctx =>
            /\ ModeOf(req'[i].h) = ModeOf(req[i].h)
            /\ req'[i].json = req[i].json

\* C37: an admitted request is in exactly one render mode, chosen when it
\* starts from ?json and dir-listing.sort and kept until it ends: jb and hb
\* are never both set; a JSON body holds brackets and elements only, no HTML
\* header or footer (which carry HEADER and README); a buffered request
\* leaves jfd and jfn as allocated (0 and NULL), holds no stream buffer, and
\* creates, closes and unlinks no file while it scans; a streaming request
\* has jfd set (-1 or a descriptor) and holds a temp name exactly when it
\* holds a descriptor.
C37_Mode == []ModeState /\ [][ModeStep]_vars

\* a JSON request and a buffered HTML request are both suspended in the
\* middle of their scans, the first with jfd set to -1, the second with jfd
\* as allocated
C37_Witness ==
    \E i, j \in Reqs :
        /\ req[i].rc = "WAIT" /\ req[i].h.jb /\ req[i].h.jfd = 0 - 1
        /\ req[i].h.pos > 0
        /\ req[j].rc = "WAIT" /\ req[j].plugin_ctx
        /\ ModeOf(req[j].h) = "buffered" /\ req[j].h.jfd = 0
        /\ req[j].h.pos > 0

\* the request `in` as it reaches the start handler on slot i
Incoming(i, in) == [St(i) EXCEPT !.q = [Req0 EXCEPT !.h2 = in.h2]]

\* the same with the cache file of the request's mode taken away
Missing(S, json) ==
    IF json THEN [S EXCEPT !.fs.json = NoFile] ELSE [S EXCEPT !.fs.html = NoFile]

\* the cache tree with the cache file of one mode left out
Besides(F, json) == IF json THEN [F EXCEPT !.json = NoFile]
                    ELSE [F EXCEPT !.html = NoFile]

\* C38: when the cache file of a request is fresh and attaching it fails,
\* mod_dirlisting_cache_check returns HANDLER_GO_ON with the request as it
\* found it (no Content-Type, empty body, no Cache-Control, no ETag, body
\* not finished), and the start handler then does what it does when there
\* is no cache file: the same return value, the same request state, the
\* same count of listings in progress, the same temp files, and the same
\* cache file whenever the call wrote one.
C38_Rollback ==
    \A i \in Reqs : \A in \in Inputs :
        ~Busy(i) /\ ~in.owned /\ in.slash /\ in.enabled
        /\ in.method \in {"GET", "HEAD"} /\ Fresh(in.json) =>
            LET S0 == [Incoming(i, in) EXCEPT !.q.json = in.json]
                cc == mod_dirlisting_cache_check(S0, {"attach"})
            IN /\ cc.rc = "GO_ON"
               /\ cc.S = S0
               /\ \A g \in Faults(CacheFaults \cup {"open"}) :
                     LET a == mod_dirlisting_subrequest_start(
                                  Incoming(i, in), in, g \cup {"attach"})
                         b == mod_dirlisting_subrequest_start(
                                  Missing(Incoming(i, in), in.json), in, g)
                     IN /\ a.rc = b.rc /\ a.path = b.path
                        /\ a.S.q = b.S.q /\ a.S.p = b.S.p
                        /\ Besides(a.S.fs, in.json) = Besides(b.S.fs, in.json)
                        /\ a.S.q.ev.ren = 1 => a.S.fs = b.S.fs
                        /\ a.S.q.ev.ren = 0 =>
                              /\ CacheFile(a.S, in.json) = CacheFile(S0, in.json)
                              /\ ~CacheFile(b.S, in.json).ex

\* a request was admitted and is scanning although the cache file of its
\* mode was fresh when it started (and still is): the attach failed
C38_Witness ==
    \E i \in Reqs :
        /\ req[i].rc = "WAIT" /\ req[i].path = "admitted"
        /\ req[i].plugin_ctx /\ ~req[i].stale
        /\ Fresh(req[i].json)
        /\ req[i].h.pos > 0

\* the pairs of an array that are out of order
Inversions(ent) ==
    Cardinality({pr \in (1..Len(ent)) \X (1..Len(ent)) :
                   pr[1] < pr[2] /\ ent[pr[1]] > ent[pr[2]]})

\* one step of the sort: a gap above 1 is followed by a smaller gap that is
\* at least 1, a gap of 0 or 1 by 1; a pass permutes the array, and a pass
\* that swapped at gap 1 leaves fewer pairs out of order; the loop goes on
\* exactly when the gap is above 1 or the pass swapped
CombStep ==
    /\ call.pc = "gap" /\ call'.pc = "pass" =>
          /\ call'.gap >= 1
          /\ call.gap > 1 => call'.gap < call.gap
          /\ call.gap <= 1 => call'.gap = 1
    /\ call.pc = "pass" /\ call'.pc # "pass" =>
          /\ Len(call'.ent) = Len(call.ent)
          /\ \A v \in CombNames \cup Range(call.ent) :
                Cardinality({k \in 1..Len(call.ent) : call'.ent[k] = v})
                  = Cardinality({k \in 1..Len(call.ent) : call.ent[k] = v})
          /\ call.gap = 1 /\ call'.swapped =>
                Inversions(call'.ent) < Inversions(call.ent)
          /\ ~call'.swapped => call'.ent = call.ent
          /\ (call'.pc = "done") = (call.gap = 1 /\ ~call'.swapped)

\* C39: http_dirls_sort returns for every array: arrays of 0 to 4 names,
\* equal names included, in every order, descending arrays of 9 to 20 names,
\* and lengths up to INT_MAX on which gap * 10 overflows.  From a gap above
\* 1 the next gap is smaller and at least 1 (9 and 10 are replaced by 11
\* only when coming from 12 or more), from 0 or 1 it is 1; each pass at gap
\* 1 that swaps leaves fewer pairs out of order, and the first that does
\* not swap ends the loop.
C39_Terminates == <>(call.pc = "done") /\ [][CombStep]_vars

\* the sort of the descending array of 13 names has returned: the gaps were
\* 11 (for 10), 8, 6, 4, 3, 2, 1, and the array is ascending
C39_Witness ==
    /\ call.fn = "http_dirls_sort" /\ call.pc = "done"
    /\ call.arg = Descending(13)
    /\ call.ent = [k \in 1..13 |-> k]
    /\ call.gap = 1 /\ ~call.swapped

====
